---- MODULE Spec2Model ----
(***************************************************************************)
(* SameGame (SFC "Samegame", easy mode) solver library.                    *)
(*                                                                         *)
(* Geometry, pieces, boards, positions with incremental Zobrist keys, the  *)
(* exact single-board solver (solver.rs), the sweep solver                 *)
(* (solver_many.rs) and the pruning solver (solver2.rs).                   *)
(*                                                                         *)
(* board.rs, bitop.rs, hint.rs and the Zobrist asset are not among the     *)
(* source files; the Board / MaskBoard primitives are written from the     *)
(* specification text and from the way position.rs and its tests use them. *)
(***************************************************************************)
EXTENDS Integers, Sequences, FiniteSets, TLC

(***************************************************************************)
(* Bounds.  The board of the program is Col::NUM = 8 by Row::NUM = 6 with  *)
(* Piece::NUM = 5 colours; the model keeps every formula in terms of       *)
(* ColNum / RowNum and checks a scaled-down geometry.                      *)
(***************************************************************************)
ColNum == 3

RowNum == 2

\* Colours of the boards that Init draws (gen_piece still draws 1..PieceNum).
InputPieces == {1, 2}

PieceNum == 5

SquareNum == ColNum * RowNum

Cols == 1..ColNum

Rows == 1..RowNum

Squares == 1..SquareNum

Pieces == 1..PieceNum

SCORE_PERFECT == 200

(***************************************************************************)
(* square.rs                                                               *)
(***************************************************************************)
SquareNew(col, row) == RowNum * (col - 1) + row

\* Mutant of SquareCol: the index is divided by the number of columns.
SquareColByCols(sq) == 1 + ((sq - 1) \div ColNum)

SquareCol(sq) == 1 + ((sq - 1) \div RowNum)

SquareRow(sq) == 1 + ((sq - 1) % RowNum)

(***************************************************************************)
(* score.rs                                                                *)
(***************************************************************************)
\* Mutant of score_erase: a capture of n squares scores (n - 2)^2.
score_erase_short(n) == (n - 2) * (n - 2)

score_erase(n) == (n - 1) * (n - 1)

(***************************************************************************)
(* Small helpers.                                                          *)
(***************************************************************************)
MinOf(S) == CHOOSE x \in S : \A y \in S : x <= y

MaxOf(S) == CHOOSE x \in S : \A y \in S : x >= y

SymDiff(A, B) == (A \ B) \cup (B \ A)

RECURSIVE BitXor(_, _)
BitXor(a, b) ==
    IF a = 0 THEN b
    ELSE IF b = 0 THEN a
    ELSE ((a + b) % 2) + 2 * BitXor(a \div 2, b \div 2)

(***************************************************************************)
(* MaskBoard: a set of squares.  Board: the content of every square,       *)
(* 0 for an empty square and 1..PieceNum for a piece.                      *)
(***************************************************************************)
BoardEmpty == [sq \in Squares |-> 0]

BoardGet(board, sq) == board[sq]

PieceMask(board, piece) == {sq \in Squares : board[sq] = piece}

Occupancy(board) == {sq \in Squares : board[sq] # 0}

BoardPieceCount(board, piece) == Cardinality(PieceMask(board, piece))

\* Mutant of BoardIsEmpty: no board is taken for empty.
BoardIsEmptyNever(board) == FALSE

BoardIsEmpty(board) == Occupancy(board) = {}

\* Each column is a contiguous stack starting at row 1.
BoardValid(board) ==
    \A col \in Cols : \A row \in 2..RowNum :
        board[SquareNew(col, row)] # 0 => board[SquareNew(col, row - 1)] # 0

\* 4-adjacency: same column and rows differ by 1, or same row and columns differ by 1.
Adjacent(s, t) ==
    \/ SquareCol(s) = SquareCol(t) /\ (SquareRow(s) - SquareRow(t)) \in {-1, 1}
    \/ SquareRow(s) = SquareRow(t) /\ (SquareCol(s) - SquareCol(t)) \in {-1, 1}

NeighborsOf(mb) == {t \in Squares : \E s \in mb : Adjacent(s, t)}

\* flood_fill: frontier <- (frontier \cup neighbors(frontier)) \cap self until stable.
RECURSIVE FloodFrom(_, _)
FloodFrom(self, frontier) ==
    LET next == (frontier \cup NeighborsOf(frontier)) \cap self
    IN  IF next = frontier THEN frontier ELSE FloodFrom(self, next)

FloodFill(self, seed) == FloodFrom(self, {seed} \cap self)

MaskIsSingle(mb) == Cardinality(mb) = 1

\* The components of one colour mask, in ascending order of their least square.
RECURSIVE ComponentsOfMask(_, _)
ComponentsOfMask(piece, mask) ==
    IF mask = {} THEN << >>
    ELSE LET mb == FloodFill(mask, MinOf(mask))
         IN  << [piece |-> piece, mb |-> mb] >> \o ComponentsOfMask(piece, mask \ mb)

\* piece_components: every maximal same-colour region, singletons included,
\* colours ascending.
RECURSIVE ComponentsFrom(_, _)
ComponentsFrom(board, piece) ==
    IF piece > PieceNum THEN << >>
    ELSE ComponentsOfMask(piece, PieceMask(board, piece)) \o ComponentsFrom(board, piece + 1)

PieceComponents(board) == ComponentsFrom(board, 1)

\* xor_mask: the squares on which some colour mask of the two boards differs.
\* Mutant of XorMask: the symmetric difference of the two occupancies.
XorMaskOccupancy(board, other) == SymDiff(Occupancy(board), Occupancy(other))

XorMask(board, other) ==
    UNION {SymDiff(PieceMask(board, piece), PieceMask(other, piece)) : piece \in Pieces}

(***************************************************************************)
(* Board::erase: remove the mask, pack every column down, then close the   *)
(* empty columns by shifting the columns to their right leftward.          *)
(***************************************************************************)
RemoveMask(board, mask) == [sq \in Squares |-> IF sq \in mask THEN 0 ELSE board[sq]]

ColumnCells(board, col) == [row \in Rows |-> board[SquareNew(col, row)]]

PackColumn(cells) ==
    LET kept == SelectSeq(cells, LAMBDA x : x # 0)
    IN  [row \in Rows |-> IF row <= Len(kept) THEN kept[row] ELSE 0]

\* Mutant of PackDown: the columns are left as the removal leaves them.
PackDownNothing(board) == board

PackDown(board) ==
    [sq \in Squares |-> PackColumn(ColumnCells(board, SquareCol(sq)))[SquareRow(sq)]]

ColumnIsEmpty(board, col) == \A row \in Rows : board[SquareNew(col, row)] = 0

\* Remove column `col`: every column strictly to its right moves one to the left.
ShiftLeftOnto(board, col) ==
    [sq \in Squares |->
        IF SquareCol(sq) < col THEN board[sq]
        ELSE IF SquareCol(sq) = ColNum THEN 0
        ELSE board[SquareNew(SquareCol(sq) + 1, SquareRow(sq))]]

\* Mutant of CloseColumns: one empty column is closed, the others are left.
CloseColumnsOnce(board) ==
    LET gaps == {col \in Cols : /\ ColumnIsEmpty(board, col)
                                /\ \E c2 \in Cols : c2 > col /\ ~ColumnIsEmpty(board, c2)}
    IN  IF gaps = {} THEN board ELSE ShiftLeftOnto(board, MinOf(gaps))

RECURSIVE CloseColumns(_)
CloseColumns(board) ==
    LET gaps == {col \in Cols : /\ ColumnIsEmpty(board, col)
                                /\ \E c2 \in Cols : c2 > col /\ ~ColumnIsEmpty(board, c2)}
    IN  IF gaps = {} THEN board
        ELSE CloseColumns(ShiftLeftOnto(board, MinOf(gaps)))

Erase(board, mask) == CloseColumns(PackDown(RemoveMask(board, mask)))

(***************************************************************************)
(* zobrist.rs.  A key is the 64-bit word split at KEY_HI_SHIFT: lo are the *)
(* index bits, hi the bits above them.  The table asset is absent; it is   *)
(* taken free of collisions: the high part of the constant of (piece, sq)  *)
(* has a coordinate of its own, the low part is an arbitrary pattern.      *)
(***************************************************************************)
DP_TABLE_CAP_BITS == 4

DP_TABLE_CAP == 2 ^ DP_TABLE_CAP_BITS

KeyZero == [lo |-> 0, hi |-> {}]

KeyXor(a, b) == [lo |-> BitXor(a.lo, b.lo), hi |-> SymDiff(a.hi, b.hi)]

ZobristBoard(piece, sq) ==
    [lo |-> (7 * piece + 3 * sq + piece * sq) % DP_TABLE_CAP,
     hi |-> {<<piece, sq>>}]

(***************************************************************************)
(* action.rs                                                               *)
(***************************************************************************)
ActionNew(piece, mb) == [piece |-> piece, mb |-> mb]

ActionSquareCount(action) == Cardinality(action.mb)

ActionLeastSquare(action) == MinOf(action.mb)

\* Mutant of ActionFromBoardSquare: the mask is the square and its
\* neighbours of the same colour.
ActionFromBoardSquareOneStep(board, sq) ==
    IF board[sq] = 0 THEN "abort"
    ELSE LET mb == {t \in PieceMask(board, board[sq]) : t = sq \/ Adjacent(sq, t)}
         IN  IF Cardinality(mb) >= 2 THEN ActionNew(board[sq], mb) ELSE "abort"

\* from_board_square: "abort" when the square is empty or its component is single.
ActionFromBoardSquare(board, sq) ==
    IF board[sq] = 0 THEN "abort"
    ELSE LET mb == FloodFill(PieceMask(board, board[sq]), sq)
         IN  IF Cardinality(mb) >= 2 THEN ActionNew(board[sq], mb) ELSE "abort"

(***************************************************************************)
(* position.rs                                                             *)
(***************************************************************************)
RECURSIVE KeyFromScratch(_, _)
KeyFromScratch(board, sq) ==
    IF sq > SquareNum THEN KeyZero
    ELSE KeyXor(IF board[sq] = 0 THEN KeyZero ELSE ZobristBoard(board[sq], sq),
                KeyFromScratch(board, sq + 1))

PositionNew(board) ==
    [board |-> board,
     key |-> KeyFromScratch(board, 1),
     piece_counts |-> [piece \in Pieces |-> BoardPieceCount(board, piece) % 256]]

\* Mutant of PositionActions: the is_single filter is dropped.
PositionActionsUnfiltered(pos) ==
    LET comps == PieceComponents(pos.board)
    IN  [i \in 1..Len(comps) |-> ActionNew(comps[i].piece, comps[i].mb)]

\* actions(): the components that are not single, in piece_components order.
PositionActions(pos) ==
    LET comps == SelectSeq(PieceComponents(pos.board), LAMBDA c : ~MaskIsSingle(c.mb))
    IN  [i \in 1..Len(comps) |-> ActionNew(comps[i].piece, comps[i].mb)]

\* Mutant of KeyUpdateSquare: the piece that stood on the square before is not
\* XORed out when the square is still occupied afterwards.
KeyUpdateSquareStale(key, before, after, sq) ==
    IF after[sq] # 0 THEN KeyXor(key, ZobristBoard(after[sq], sq))
    ELSE IF before[sq] # 0 THEN KeyXor(key, ZobristBoard(before[sq], sq))
    ELSE key

\* The body of the key-update loop for one square of the xor mask.
KeyUpdateSquare(key, before, after, sq) ==
    LET k1 == IF before[sq] # 0 THEN KeyXor(key, ZobristBoard(before[sq], sq)) ELSE key
    IN  IF after[sq] # 0 THEN KeyXor(k1, ZobristBoard(after[sq], sq)) ELSE k1

RECURSIVE KeyUpdate(_, _, _, _)
KeyUpdate(key, before, after, sqs) ==
    IF sqs = {} THEN key
    ELSE LET sq == MinOf(sqs)
         IN  KeyUpdate(KeyUpdateSquare(key, before, after, sq), before, after, sqs \ {sq})

\* Mutant of DoAction: the count of the captured colour is decremented by the
\* gain of the capture instead of its size.
DoActionCountByGain(pos, action) ==
    LET board == Erase(pos.board, action.mb)
    IN  [board |-> board,
         key |-> KeyUpdate(pos.key, pos.board, board, XorMask(pos.board, board)),
         piece_counts |->
            [pos.piece_counts EXCEPT
                ![action.piece] = (@ - score_erase(ActionSquareCount(action))) % 256]]

DoAction(pos, action) ==
    LET board == Erase(pos.board, action.mb)
    IN  [board |-> board,
         key |-> KeyUpdate(pos.key, pos.board, board, XorMask(pos.board, board)),
         piece_counts |->
            [pos.piece_counts EXCEPT
                ![action.piece] = (@ - ActionSquareCount(action)) % 256]]

(***************************************************************************)
(* State.                                                                  *)
(*   pos, op : a Position driven through do_action / erase, and a record   *)
(*             of the last operation applied to it.                        *)
(*   pc, input, arg, ret, stack : the solver's control point, the board it  *)
(*             was given, the position dfs is being called on, the value   *)
(*             the last dfs call returned, and the frames of the calls of  *)
(*             dfs in progress.                                            *)
(*   dp      : the transposition table.                                    *)
(*   cur, solution, result : path reconstruction and what solve returned.  *)
(*   best_score, best_ans  : the fields of the sweep / pruning Solver.     *)
(*   sub     : the SubSolver of solver2 (best_score, best_solution,        *)
(*             history).                                                   *)
(*   sweep   : the ranges and loop variables of solver_many's solve.       *)
(*   seen    : the boards handed to the solver so far (the "Search:" log). *)
(***************************************************************************)
VARIABLES pos, op, pc, input, arg, ret, stack, dp, cur, solution, result,
          best_score, best_ans, sub, sweep, seen

posVars == <<pos, op>>

dfsVars == <<pc, input, arg, ret, stack, dp, cur, solution, result>>

sweepVars == <<best_score, best_ans, sub, sweep, seen>>

vars == <<pos, op, pc, input, arg, ret, stack, dp, cur, solution, result,
          best_score, best_ans, sub, sweep, seen>>

\* Every valid board over InputPieces: one stack per column, gaps between
\* columns allowed (the board text format accepts them).
ColumnStacks == UNION {[1..h -> InputPieces] : h \in 0..RowNum}

BoardOfStacks(stacks) ==
    [sq \in Squares |->
        IF SquareRow(sq) <= Len(stacks[SquareCol(sq)])
        THEN stacks[SquareCol(sq)][SquareRow(sq)] ELSE 0]

InputBoards == {BoardOfStacks(stacks) : stacks \in [Cols -> ColumnStacks]}

PosIdle == [board |-> BoardEmpty, key |-> KeyZero, piece_counts |-> [piece \in Pieces |-> 0]]

OpIdle == [kind |-> "idle"]

NoPosition == PosIdle

DfsIdle ==
    /\ pc = "idle"
    /\ input = BoardEmpty
    /\ arg = NoPosition
    /\ ret = 0
    /\ stack = << >>
    /\ dp = [entry_count |-> 0]
    /\ cur = NoPosition
    /\ solution = << >>
    /\ result = [kind |-> "none"]

SweepIdle ==
    /\ best_score = 0
    /\ best_ans = [kind |-> "None"]
    /\ sub = [kind |-> "none"]
    /\ sweep = [kind |-> "none"]
    /\ seen = {}

(***************************************************************************)
(* Specification SpecPos: Position::new on any input board, then any       *)
(* sequence of legal do_action calls.                                      *)
(***************************************************************************)
PosInit ==
    /\ pos \in {PositionNew(board) : board \in InputBoards}
    /\ op = [kind |-> "new", n |-> 0]
    /\ DfsIdle
    /\ SweepIdle

PosDoAction ==
    \E i \in 1..Len(PositionActions(pos)) :
        LET action == PositionActions(pos)[i]
        IN  /\ pos' = DoAction(pos, action)
            /\ op' = [kind |-> "do_action", n |-> op.n + 1, before |-> pos, action |-> action]
            /\ UNCHANGED <<dfsVars, sweepVars>>

PosNext == PosDoAction

SpecPos == PosInit /\ [][PosNext]_vars

(***************************************************************************)
(* Specification SpecErase: Board::erase with any mask inside the          *)
(* occupancy, on any input board and on every board it produces.           *)
(***************************************************************************)
EraseInit ==
    /\ pos \in {PositionNew(board) : board \in InputBoards}
    /\ op = [kind |-> "new", n |-> 0]
    /\ DfsIdle
    /\ SweepIdle

EraseMask ==
    \E mask \in SUBSET Occupancy(pos.board) :
        /\ pos' = PositionNew(Erase(pos.board, mask))
        /\ op' = [kind |-> "erase", n |-> 0, before |-> pos, mask |-> mask]
        /\ UNCHANGED <<dfsVars, sweepVars>>

EraseNext == EraseMask

SpecErase == EraseInit /\ [][EraseNext]_vars

(***************************************************************************)
(* Reference definitions used by the properties of boards and positions.   *)
(***************************************************************************)
\* Reachability inside a mask by Warshall's closure of the adjacency relation.
RECURSIVE Warshall(_, _, _)
Warshall(mask, rel, todo) ==
    IF todo = {} THEN rel
    ELSE LET k == MinOf(todo)
         IN  Warshall(mask,
                      rel \cup {st \in mask \X mask : <<st[1], k>> \in rel /\ <<k, st[2]>> \in rel},
                      todo \ {k})

Connected(mask) ==
    Warshall(mask, {st \in mask \X mask : st[1] = st[2] \/ Adjacent(st[1], st[2])}, mask)

\* The (colour, component) pairs of at least two squares.
LegalCaptures(board) ==
    UNION {LET mask == PieceMask(board, piece)
               rel == Connected(mask)
           IN  {<<piece, {t \in mask : <<s, t>> \in rel}>> : s \in mask}
           : piece \in Pieces}
      \ {cap \in Pieces \X SUBSET Squares : Cardinality(cap[2]) < 2}

Survives(board, mask, sq) == board[sq] # 0 /\ sq \notin mask

RowRank(board, mask, sq) ==
    Cardinality({t \in Squares : /\ SquareCol(t) = SquareCol(sq)
                                 /\ SquareRow(t) <= SquareRow(sq)
                                 /\ Survives(board, mask, t)})

ColSurvives(board, mask, col) ==
    \E t \in Squares : SquareCol(t) = col /\ Survives(board, mask, t)

ColRank(board, mask, col) ==
    Cardinality({c2 \in Cols : c2 <= col /\ ColSurvives(board, mask, c2)})

\* The survivor of rank (j, k) stands on column j, row k.
EraseReference(board, mask) ==
    [sq \in Squares |->
        LET src == {t \in Squares : /\ Survives(board, mask, t)
                                    /\ ColRank(board, mask, SquareCol(t)) = SquareCol(sq)
                                    /\ RowRank(board, mask, t) = SquareRow(sq)}
        IN  IF src = {} THEN 0 ELSE board[CHOOSE t \in src : TRUE]]

(***************************************************************************)
(* Properties of Position (SpecPos) and of Board::erase (SpecErase).       *)
(***************************************************************************)
\* C3: after any sequence of legal do_action calls from Position::new(B) the
\* key equals the key computed from scratch on the current board (the XOR of
\* the Zobrist constants of the occupied squares); the empty board has key 0.
KeyMatchesBoard ==
    /\ pos.key = KeyFromScratch(pos.board, 1)
    /\ BoardIsEmpty(pos.board) => pos.key = KeyZero

\* A second capture after which a square holds a piece of another colour than
\* before (a column fell or moved onto it).
KeyWitness ==
    /\ op.kind = "do_action"
    /\ op.n >= 2
    /\ \E sq \in Squares : /\ op.before.board[sq] # 0
                           /\ pos.board[sq] # 0
                           /\ pos.board[sq] # op.before.board[sq]

\* C4: after any sequence of legal do_action calls piece_count(p) is the
\* number of squares of colour p on the board, and the u8 decrement by the
\* size of the captured component does not underflow.
PieceCountsMatchBoard ==
    /\ \A piece \in Pieces : pos.piece_counts[piece] = BoardPieceCount(pos.board, piece)
    /\ op.kind = "do_action" =>
          op.before.piece_counts[op.action.piece] >= ActionSquareCount(op.action)

\* A second capture that takes the last pieces of its colour while another
\* colour remains.
PieceCountsWitness ==
    /\ op.kind = "do_action"
    /\ op.n >= 2
    /\ pos.piece_counts[op.action.piece] = 0
    /\ \E piece \in Pieces : pos.piece_counts[piece] > 0

\* C5: actions() yields exactly the (colour, component) pairs whose component
\* is a maximal 4-connected same-colour set of at least 2 squares: no
\* singleton, none missing, none twice.
ActionsAreLegalCaptures ==
    LET acts == PositionActions(pos)
    IN  /\ {<<acts[i].piece, acts[i].mb>> : i \in 1..Len(acts)} = LegalCaptures(pos.board)
        /\ Len(acts) = Cardinality(LegalCaptures(pos.board))

\* A position with two legal captures and a singleton component.
ActionsWitness ==
    /\ Len(PositionActions(pos)) >= 2
    /\ \E i \in 1..Len(PieceComponents(pos.board)) :
          MaskIsSingle(PieceComponents(pos.board)[i].mb)

\* C6: erase(B, M) for M inside the occupancy of a valid board B is a board
\* whose columns are contiguous stacks from row 1, with per-colour counts equal
\* to those of B minus the squares of that colour in M.
EraseKeepsStacksAndCounts ==
    op.kind = "erase" =>
        /\ BoardValid(op.before.board)
        /\ BoardValid(pos.board)
        /\ \A piece \in Pieces :
              BoardPieceCount(pos.board, piece) =
                  BoardPieceCount(op.before.board, piece)
                    - Cardinality(op.mask \cap PieceMask(op.before.board, piece))

\* An erase that removes a square from under a surviving piece.
EraseStacksWitness ==
    /\ op.kind = "erase"
    /\ \E sq \in op.mask : \E t \in Squares :
          /\ SquareCol(t) = SquareCol(sq)
          /\ SquareRow(t) > SquareRow(sq)
          /\ Survives(op.before.board, op.mask, t)
    /\ Cardinality({piece \in Pieces : op.mask \cap PieceMask(op.before.board, piece) # {}}) >= 2

\* C7: erase(B, M) is the reference transformation: the survivors of each
\* column packed to rows 1..k in their bottom-to-top order, the non-empty
\* columns moved to columns 1..m in their left-to-right order, no empty column
\* left of a non-empty one.
EraseIsReference ==
    op.kind = "erase" =>
        /\ pos.board = EraseReference(op.before.board, op.mask)
        /\ \A col \in Cols : \A c2 \in Cols :
              (col < c2 /\ ColumnIsEmpty(pos.board, col)) => ColumnIsEmpty(pos.board, c2)

\* An erase after which a column stands two columns further left and a piece
\* of it has fallen.
EraseReferenceWitness ==
    /\ op.kind = "erase"
    /\ \E t \in Squares :
          /\ Survives(op.before.board, op.mask, t)
          /\ ColRank(op.before.board, op.mask, SquareCol(t)) <= SquareCol(t) - 2
          /\ RowRank(op.before.board, op.mask, t) < SquareRow(t)

(***************************************************************************)
(* solver.rs: the exact solver of one board.                               *)
(*                                                                         *)
(* The recursion of dfs is run one step at a time on an explicit stack of  *)
(* frames; a frame holds the locals of one call that got Created from the  *)
(* table: its position, its actions and the index of the next one, its     *)
(* gain_max and its table index.                                           *)
(***************************************************************************)
RECURSIVE BitOr(_, _)
BitOr(a, b) ==
    IF a = 0 THEN b
    ELSE IF b = 0 THEN a
    ELSE (IF a % 2 = 1 \/ b % 2 = 1 THEN 1 ELSE 0) + 2 * BitOr(a \div 2, b \div 2)

\* Mutant of Chmax: the new value always replaces the old one.
ChmaxAssign(xmax, x) == x

Chmax(xmax, x) == IF x > xmax THEN x ELSE xmax

\* Mutant of HISTORY_CAP: one square less.
HistoryCapShort == (ColNum * RowNum) \div 2 - 1

HISTORY_CAP == (ColNum * RowNum) \div 2

HASH_TABLE_CAP == DP_TABLE_CAP

GAIN_MAX_BITS == 12

GAIN_MAX_MASK == 2 ^ GAIN_MAX_BITS - 1

calc_key_hi(key) == key.hi

\* An entry is the two bit fields of its word: the bits below the key part
\* (where 1 + gain_max is stored) and the key part.  None is the zero word.
HashTableNone == [value_gain_max |-> 0, key_hi |-> {}]

\* Mutant of HashTableEntryNew: gain_max is stored without the 1 added.
HashTableEntryNewNoBias(key, gain_max) ==
    [value_gain_max |-> gain_max, key_hi |-> calc_key_hi(key)]

HashTableEntryNew(key, gain_max) ==
    [value_gain_max |-> 1 + gain_max, key_hi |-> calc_key_hi(key)]

HashTableEntryGainMax(entry) == (entry.value_gain_max % (GAIN_MAX_MASK + 1)) - 1

HashTableEntrySetGainMax(entry, gain_max) ==
    [entry EXCEPT !.value_gain_max =
        BitOr(@ - (@ % (GAIN_MAX_MASK + 1)), 1 + gain_max)]

\* No table: solve_problem has not built a Solver.
NoTable == [entry_count |-> 0, array |-> << >>]

HashTableNew ==
    [entry_count |-> 0, array |-> [idx \in 0..(HASH_TABLE_CAP - 1) |-> HashTableNone]]

\* The linear probe from idx; visited counts the slots already passed.  With
\* every slot taken by another key the loop of probe never ends: "Spin".
\* Mutant of HashTableProbeFrom: a slot taken by another key is overwritten
\* instead of being passed.
HashTableProbeFromReplace(table, key, idx, visited) ==
    LET entry == table.array[idx]
    IN  IF entry # HashTableNone /\ entry.key_hi = calc_key_hi(key)
        THEN [kind |-> "Found", gain_max |-> HashTableEntryGainMax(entry),
              table |-> table]
        ELSE [kind |-> "Created", idx |-> idx,
              table |-> [entry_count |-> table.entry_count + 1,
                         array |-> [table.array EXCEPT
                                       ![idx] = HashTableEntryNew(key, 0)]]]

RECURSIVE HashTableProbeFrom(_, _, _, _)
HashTableProbeFrom(table, key, idx, visited) ==
    LET entry == table.array[idx]
    IN  IF visited = HASH_TABLE_CAP THEN [kind |-> "Spin", table |-> table]
        ELSE IF entry = HashTableNone
        THEN [kind |-> "Created", idx |-> idx,
              table |-> [entry_count |-> table.entry_count + 1,
                         array |-> [table.array EXCEPT
                                       ![idx] = HashTableEntryNew(key, 0)]]]
        ELSE IF entry.key_hi = calc_key_hi(key)
        THEN [kind |-> "Found", gain_max |-> HashTableEntryGainMax(entry),
              table |-> table]
        ELSE HashTableProbeFrom(table, key, (idx + 1) % HASH_TABLE_CAP, visited + 1)

\* Mutant of HashTableProbe: Created is reported without storing the
\* provisional entry.
HashTableProbeForget(table, key) ==
    [kind |-> "Created", idx |-> key.lo % HASH_TABLE_CAP, table |-> table]

HashTableProbe(table, key) ==
    HashTableProbeFrom(table, key, key.lo % HASH_TABLE_CAP, 0)

\* Mutant of HashTableSetGainMax: the provisional entry is never updated.
HashTableSetGainMaxSkipped(table, idx, gain_max) == table

HashTableSetGainMax(table, idx, gain_max) ==
    [table EXCEPT !.array[idx] = HashTableEntrySetGainMax(@, gain_max)]

\* Mutant of MaxByKey: the first action is taken, whatever its key.
MaxByKeyFirst(keys) == 1

\* Iterator::max_by_key: the index of the last element whose key is maximal.
MaxByKey(keys) ==
    MaxOf({i \in 1..Len(keys) : \A j \in 1..Len(keys) : keys[j] <= keys[i]})

\* Mutant of SolveProblemEmpty: the perfect bonus is left out.
SolveProblemEmptyNoBonus == [score |-> 0, solution |-> << >>]

\* What solve_problem returns for the empty board.
SolveProblemEmpty == [score |-> SCORE_PERFECT, solution |-> << >>]

DfsFrame(p, idx) ==
    [pos |-> p, acts |-> PositionActions(p), i |-> 1, gain_max |-> 0, dp_idx |-> idx]

SolveInit ==
    /\ pos = PosIdle
    /\ op = OpIdle
    /\ pc = "solve_problem"
    /\ input \in InputBoards
    /\ arg = NoPosition
    /\ ret = 0
    /\ stack = << >>
    /\ dp = NoTable
    /\ cur = NoPosition
    /\ solution = << >>
    /\ result = [kind |-> "none"]
    /\ SweepIdle

\* solve_problem: the empty board is answered at once; otherwise a Position
\* and a Solver with a fresh table are built and dfs is called on the root.
SolveProblem ==
    /\ pc = "solve_problem"
    /\ IF BoardIsEmpty(input)
       THEN /\ result' = SolveProblemEmpty
            /\ pc' = "done"
            /\ UNCHANGED <<arg, dp>>
       ELSE /\ dp' = HashTableNew
            /\ arg' = PositionNew(input)
            /\ pc' = "dfs"
            /\ UNCHANGED result
    /\ UNCHANGED <<input, ret, stack, cur, solution, posVars, sweepVars>>

\* dfs, from its entry to its first return or to the start of the loop.
SolveDfs ==
    /\ pc = "dfs"
    /\ IF BoardIsEmpty(arg.board)
       THEN /\ ret' = SCORE_PERFECT
            /\ pc' = "return"
            /\ UNCHANGED <<dp, stack>>
       ELSE LET probe == HashTableProbe(dp, arg.key)
            IN  /\ dp' = probe.table
                /\ CASE probe.kind = "Found" ->
                            /\ ret' = probe.gain_max
                            /\ pc' = "return"
                            /\ UNCHANGED stack
                     [] probe.kind = "Created" ->
                            /\ stack' = Append(stack, DfsFrame(arg, probe.idx))
                            /\ pc' = "loop"
                            /\ UNCHANGED ret
                     [] probe.kind = "Spin" ->
                            /\ pc' = "spin"
                            /\ UNCHANGED <<ret, stack>>
    /\ UNCHANGED <<input, arg, cur, solution, result, posVars, sweepVars>>

\* The loop over the actions: the next action is played and dfs is called on
\* the child.
SolveDfsLoop ==
    /\ pc = "loop"
    /\ LET top == stack[Len(stack)]
       IN  /\ top.i <= Len(top.acts)
           /\ arg' = DoAction(top.pos, top.acts[top.i])
           /\ pc' = "dfs"
    /\ UNCHANGED <<input, ret, stack, dp, cur, solution, result, posVars, sweepVars>>

\* After the loop: 0 is returned for a terminal position, otherwise the
\* entry is set to gain_max, which is returned.
SolveDfsFinish ==
    /\ pc = "loop"
    /\ LET top == stack[Len(stack)]
       IN  /\ top.i > Len(top.acts)
           /\ IF top.gain_max = 0
              THEN /\ ret' = 0
                   /\ UNCHANGED dp
              ELSE /\ dp' = HashTableSetGainMax(dp, top.dp_idx, top.gain_max)
                   /\ ret' = top.gain_max
           /\ stack' = SubSeq(stack, 1, Len(stack) - 1)
           /\ pc' = "return"
    /\ UNCHANGED <<input, arg, cur, solution, result, posVars, sweepVars>>

\* A call of dfs returned into the loop of its caller.
SolveDfsReturn ==
    /\ pc = "return"
    /\ stack # << >>
    /\ LET top == stack[Len(stack)]
           gain_action == score_erase(ActionSquareCount(top.acts[top.i]))
       IN  stack' = [stack EXCEPT ![Len(stack)] =
                        [top EXCEPT !.gain_max = Chmax(@, gain_action + ret),
                                    !.i = @ + 1]]
    /\ pc' = "loop"
    /\ UNCHANGED <<input, arg, ret, dp, cur, solution, result, posVars, sweepVars>>

\* The root call returned into solve: ret is the score, the reconstruction
\* starts from a clone of the root.
SolveDfsRoot ==
    /\ pc = "return"
    /\ stack = << >>
    /\ solution' = << >>
    /\ cur' = PositionNew(input)
    /\ pc' = "restore"
    /\ UNCHANGED <<input, arg, ret, stack, dp, result, posVars, sweepVars>>

\* The probes the key closure of max_by_key makes at position p, one per
\* action, each on the table the previous one left.
RECURSIVE RestoreProbes(_, _, _, _)
RestoreProbes(table, p, acts, i) ==
    IF i > Len(acts) THEN << >>
    ELSE LET child == DoAction(p, acts[i])
         IN  IF BoardIsEmpty(child.board)
             THEN <<[kind |-> "Found", gain_max |-> SCORE_PERFECT, table |-> table]>>
                    \o RestoreProbes(table, p, acts, i + 1)
             ELSE LET probe == HashTableProbe(table, child.key)
                  IN  <<probe>> \o RestoreProbes(probe.table, p, acts, i + 1)

\* One iteration of the reconstruction loop of solve.
SolveRestore ==
    /\ pc = "restore"
    /\ LET acts == PositionActions(cur)
           probes == RestoreProbes(dp, cur, acts, 1)
           missing == {i \in 1..Len(acts) : probes[i].kind # "Found"}
           keys == [i \in 1..Len(acts) |->
                        score_erase(ActionSquareCount(acts[i])) + probes[i].gain_max]
       IN  IF Len(acts) = 0
           THEN /\ result' = [score |-> ret, solution |-> solution]
                /\ pc' = "done"
                /\ UNCHANGED <<dp, cur, solution>>
           ELSE IF missing # {}
           THEN /\ dp' = probes[MinOf(missing)].table
                /\ pc' = IF probes[MinOf(missing)].kind = "Spin" THEN "spin" ELSE "panic"
                /\ UNCHANGED <<cur, solution, result>>
           ELSE IF Len(solution) >= HISTORY_CAP
           THEN /\ pc' = "panic"
                /\ UNCHANGED <<dp, cur, solution, result>>
           ELSE /\ solution' = Append(solution, ActionLeastSquare(acts[MaxByKey(keys)]))
                /\ cur' = DoAction(cur, acts[MaxByKey(keys)])
                /\ UNCHANGED <<pc, dp, result>>
    /\ UNCHANGED <<input, arg, ret, stack, posVars, sweepVars>>

SolveNext ==
    \/ SolveProblem
    \/ SolveDfs
    \/ SolveDfsLoop
    \/ SolveDfsFinish
    \/ SolveDfsReturn
    \/ SolveDfsRoot
    \/ SolveRestore

SpecSolve == SolveInit /\ [][SolveNext]_vars

(***************************************************************************)
(* Reference definitions for the solvers, written from the rules of the    *)
(* game only.                                                              *)
(***************************************************************************)
\* The best total over all sequences of legal captures from board: stopping
\* here is worth the perfect bonus on an empty board and nothing otherwise.
RECURSIVE BestScore(_)
BestScore(board) ==
    MaxOf({IF BoardIsEmpty(board) THEN SCORE_PERFECT ELSE 0}
          \cup {score_erase(Cardinality(cap[2]))
                    + BestScore(EraseReference(board, cap[2]))
                : cap \in LegalCaptures(board)})

\* Replaying a history of squares: whether every square names a legal
\* capture of the board it is played on, the board left, and the gains.
RECURSIVE Replay(_, _)
Replay(board, hist) ==
    IF hist = << >> THEN [legal |-> TRUE, board |-> board, gains |-> 0]
    ELSE LET caps == {cap \in LegalCaptures(board) : hist[1] \in cap[2]}
         IN  IF caps = {} THEN [legal |-> FALSE, board |-> board, gains |-> 0]
             ELSE LET cap == CHOOSE c \in caps : TRUE
                      rest == Replay(EraseReference(board, cap[2]), Tail(hist))
                  IN  [rest EXCEPT !.gains = @ + score_erase(Cardinality(cap[2]))]

\* BestScore on the boards of InputBoards, tabulated.
BestScoreOf == [board \in InputBoards |-> BestScore(board)]

ReplayScore(board, hist) ==
    LET r == Replay(board, hist)
    IN  r.gains + (IF BoardIsEmpty(r.board) THEN SCORE_PERFECT ELSE 0)

(***************************************************************************)
(* C1: solve_problem returns the maximum, over all sequences of legal      *)
(* captures from the board, of the sum of (n-1)^2 over the captures plus   *)
(* 200 if the board is empty after the last one; it does not panic.        *)
(***************************************************************************)
SolveScoreIsOptimal ==
    /\ pc # "panic"
    /\ pc = "done" => result.score = BestScore(input)

\* A board with several captures, one of them strictly worse than the best
\* line, has been solved.
SolveOptimalWitness ==
    /\ pc = "done"
    /\ ~BoardIsEmpty(input)
    /\ result.score > 0
    /\ Cardinality(LegalCaptures(input)) >= 2
    /\ \E cap \in LegalCaptures(input) :
          score_erase(Cardinality(cap[2])) + BestScore(EraseReference(input, cap[2]))
              < result.score

(***************************************************************************)
(* C2: the history solve_problem returns replays from the input board as   *)
(* legal captures only, ends on a board with no legal capture, and its     *)
(* gains (plus the perfect bonus on an empty final board) sum to the       *)
(* returned score.                                                         *)
(***************************************************************************)
SolveHistoryReplays ==
    pc = "done" =>
        LET r == Replay(input, result.solution)
        IN  /\ r.legal
            /\ LegalCaptures(r.board) = {}
            /\ ReplayScore(input, result.solution) = result.score

\* A history of at least two captures that does not clear the board.
SolveHistoryWitness ==
    /\ pc = "done"
    /\ Len(result.solution) >= 2
    /\ ~BoardIsEmpty(Replay(input, result.solution).board)

(***************************************************************************)
(* C10: for the empty board solve_problem returns (200, empty history),    *)
(* and no table entry is ever probed or created.                           *)
(***************************************************************************)
SolveEmptyBoard ==
    BoardIsEmpty(input) =>
        /\ pc \in {"solve_problem", "done"}
        /\ pc = "done" => result = [score |-> 200, solution |-> << >>]
        /\ dp.entry_count = 0
        /\ \A idx \in DOMAIN dp.array : dp.array[idx] = HashTableNone

SolveEmptyWitness ==
    /\ BoardIsEmpty(input)
    /\ pc = "done"

(***************************************************************************)
(* solver_many.rs: score_upper_bound_leaf, which solver2.rs reaches as     *)
(* Position::score_upper_bound.                                            *)
(***************************************************************************)
RECURSIVE ScoreUpperBoundLeafFrom(_, _)
ScoreUpperBoundLeafFrom(p, piece) ==
    IF piece > PieceNum THEN [res |-> 0, perfect |-> TRUE]
    ELSE LET count == p.piece_counts[piece]
             rest == ScoreUpperBoundLeafFrom(p, piece + 1)
         IN  IF count = 0 THEN rest
             ELSE IF count = 1 THEN [rest EXCEPT !.perfect = FALSE]
             ELSE [rest EXCEPT !.res = @ + score_erase(count)]

\* Mutant of score_upper_bound_leaf: the perfect bonus is left out.
score_upper_bound_leaf_no_bonus(p) == ScoreUpperBoundLeafFrom(p, 1).res

score_upper_bound_leaf(p) ==
    LET r == ScoreUpperBoundLeafFrom(p, 1)
    IN  r.res + (IF r.perfect THEN SCORE_PERFECT ELSE 0)

PositionScoreUpperBound(p) == score_upper_bound_leaf(p)

\* Mutant of PositionHasAction: every position is taken to have a capture.
PositionHasActionAlways(p) == TRUE

PositionHasAction(p) == Len(PositionActions(p)) > 0

(***************************************************************************)
(* solver2.rs: the pruning solver, which keeps best_score and its table    *)
(* from one board to the next.                                             *)
(***************************************************************************)
\* The starting values of best_score and the number of boards given to one
\* Solver.
IniScores == {0, 4, 205}

MaxProblems == 2

\* The boards and the number of boards given to one Solver when the
\* generation is followed through its wrap: the full boards whose first
\* column is of colour 1.
MaxGenerations == 3

SharedBoards ==
    {board \in InputBoards :
        /\ \A sq \in Squares : board[sq] # 0
        /\ \A row \in Rows : board[row] = 1}

\* The width of the generation, scaled from 16 bits so that a Solver goes
\* through a wrap within MaxGenerations boards.
TIME_BITS == 1

GAIN_UB_BITS == 13

S2DpNone == [time |-> 0, gain_ub |-> 0, key_hi |-> {}]

S2DpEntryNew(time, key, gain_ub) ==
    [time |-> time, gain_ub |-> gain_ub, key_hi |-> calc_key_hi(key)]

S2DpEntryGainUb(entry) == entry.gain_ub % (2 ^ GAIN_UB_BITS)

S2DpEntrySetGainUb(entry, gain_ub) == [entry EXCEPT !.gain_ub = gain_ub]

S2DpTableNew ==
    [time |-> 0, entry_count |-> 0,
     array |-> [idx \in 0..(DP_TABLE_CAP - 1) |-> S2DpNone]]

(***************************************************************************)
(* The generations of the two DP tables.                                   *)
(***************************************************************************)
\* Mutant of S2DpTableIncrementTime: the array is kept when the generation
\* wraps.
S2DpTableIncrementTimeKeep(table) ==
    [table EXCEPT !.time = (@ + 1) % (2 ^ TIME_BITS), !.entry_count = 0]

S2DpTableIncrementTime(table) ==
    LET time == (table.time + 1) % (2 ^ TIME_BITS)
        overflow == table.time + 1 >= 2 ^ TIME_BITS
    IN  [time |-> time, entry_count |-> 0,
         array |-> IF overflow THEN [idx \in DOMAIN table.array |-> S2DpNone]
                   ELSE table.array]

RECURSIVE S2DpTableProbeFrom(_, _, _, _)
S2DpTableProbeFrom(table, key, idx, visited) ==
    LET entry == table.array[idx]
    IN  IF visited = DP_TABLE_CAP THEN [kind |-> "Spin", idx |-> idx, gain_ub |-> 0]
        ELSE IF entry = S2DpNone THEN [kind |-> "Vacant", idx |-> idx, gain_ub |-> 0]
        ELSE IF entry.time # table.time THEN [kind |-> "Vacant", idx |-> idx, gain_ub |-> 0]
        ELSE IF entry.key_hi = calc_key_hi(key)
        THEN [kind |-> "Occupied", idx |-> idx, gain_ub |-> S2DpEntryGainUb(entry)]
        ELSE S2DpTableProbeFrom(table, key, (idx + 1) % DP_TABLE_CAP, visited + 1)

S2DpTableProbe(table, key) == S2DpTableProbeFrom(table, key, key.lo % DP_TABLE_CAP, 0)

S2DpTableSetGainUb(table, idx, gain_ub) ==
    [table EXCEPT !.array[idx] = S2DpEntrySetGainUb(@, gain_ub)]

S2DpTableMakeEntry(table, idx, key, gain_ub) ==
    [table EXCEPT !.entry_count = @ + 1,
                  !.array[idx] = S2DpEntryNew(table.time, key, gain_ub)]

SubSolverNew(best) ==
    [best_score |-> best, best_solution |-> [some |-> FALSE, hist |-> << >>],
     history |-> << >>]

\* try_improve!
TryImprove(s, score) ==
    IF score > s.best_score
    THEN [s EXCEPT !.best_score = score,
                   !.best_solution = [some |-> TRUE, hist |-> s.history]]
    ELSE s

\* Mutant of PruneTest: the score gathered on the way to the node is ignored.
PruneTestWithoutScore(score, gain_ub, best) == gain_ub <= best

\* The pruning test of dfs.
PruneTest(score, gain_ub, best) == score + gain_ub <= best

S2Frame(p, score, idx) ==
    [pos |-> p, score |-> score, acts |-> PositionActions(p), i |-> 1,
     gain_ub_new |-> 0, dp_idx |-> idx]

\* The score argument of the call of dfs that is being entered.
S2ArgScore ==
    IF stack = << >> THEN 0
    ELSE LET top == stack[Len(stack)]
         IN  top.score + score_erase(ActionSquareCount(top.acts[top.i]))

\* Solver::new(best_score_ini).
S2Init ==
    /\ pos = PosIdle
    /\ op = OpIdle
    /\ pc = "idle"
    /\ input = BoardEmpty
    /\ arg = NoPosition
    /\ ret = 0
    /\ stack = << >>
    /\ dp = S2DpTableNew
    /\ cur = NoPosition
    /\ solution = << >>
    /\ result = [kind |-> "none"]
    /\ best_score \in IniScores
    /\ best_ans = [kind |-> "None"]
    /\ sub = [kind |-> "none"]
    /\ sweep = [n |-> 0, before |-> best_score, boards |-> "input",
                limit |-> MaxProblems]
    /\ seen = {}

\* Solver::new(best_score_ini), to be given MaxGenerations boards of
\* SharedBoards.
GenerationsInit ==
    /\ pos = PosIdle
    /\ op = OpIdle
    /\ pc = "idle"
    /\ input = BoardEmpty
    /\ arg = NoPosition
    /\ ret = 0
    /\ stack = << >>
    /\ dp = S2DpTableNew
    /\ cur = NoPosition
    /\ solution = << >>
    /\ result = [kind |-> "none"]
    /\ best_score \in IniScores
    /\ best_ans = [kind |-> "None"]
    /\ sub = [kind |-> "none"]
    /\ sweep = [n |-> 0, before |-> best_score, boards |-> "shared",
                limit |-> MaxGenerations]
    /\ seen = {}

\* The boards a caller of the family in sweep.boards hands to solve.
S2Boards(family) == IF family = "shared" THEN SharedBoards ELSE InputBoards

\* Solver::solve is called on a board: SubSolver::new, Position::new and the
\* root call dfs(&pos, 0).
S2Solve ==
    /\ pc \in {"idle", "done"}
    /\ sweep.n < sweep.limit
    /\ \E board \in S2Boards(sweep.boards) :
        /\ input' = board
        /\ arg' = PositionNew(board)
    /\ sub' = SubSolverNew(best_score)
    /\ sweep' = [sweep EXCEPT !.n = @ + 1, !.before = best_score]
    /\ result' = [kind |-> "none"]
    /\ pc' = "dfs"
    /\ UNCHANGED <<ret, stack, dp, cur, solution, best_score, best_ans, seen, posVars>>

\* dfs, from its entry to its first return or to the start of the loop.
S2Dfs ==
    /\ pc = "dfs"
    /\ LET score == S2ArgScore
           probe == S2DpTableProbe(dp, arg.key)
           estimate == PositionScoreUpperBound(arg)
           finished == estimate = 0 \/ ~PositionHasAction(arg)
           gain_ub == IF probe.kind = "Occupied" THEN probe.gain_ub ELSE estimate
       IN  IF BoardIsEmpty(arg.board)
           THEN /\ sub' = TryImprove(sub, score + SCORE_PERFECT)
                /\ ret' = SCORE_PERFECT
                /\ pc' = "return"
                /\ UNCHANGED <<dp, stack>>
           ELSE IF probe.kind = "Spin"
           THEN /\ pc' = "spin"
                /\ UNCHANGED <<sub, ret, dp, stack>>
           ELSE IF probe.kind = "Vacant" /\ finished
           THEN /\ sub' = TryImprove(sub, score)
                /\ ret' = 0
                /\ pc' = "return"
                /\ UNCHANGED <<dp, stack>>
           ELSE /\ dp' = IF probe.kind = "Vacant"
                         THEN S2DpTableMakeEntry(dp, probe.idx, arg.key, gain_ub)
                         ELSE dp
                /\ IF PruneTest(score, gain_ub, sub.best_score)
                   THEN /\ ret' = gain_ub
                        /\ pc' = "return"
                        /\ UNCHANGED stack
                   ELSE /\ stack' = Append(stack, S2Frame(arg, score, probe.idx))
                        /\ pc' = "loop"
                        /\ UNCHANGED ret
                /\ UNCHANGED sub
    /\ UNCHANGED <<input, arg, cur, solution, result, best_score, best_ans,
                   sweep, seen, posVars>>

\* The loop over the actions: the least square of the next action is pushed
\* on the history, the action is played and dfs is called on the child.
S2DfsLoop ==
    /\ pc = "loop"
    /\ LET top == stack[Len(stack)]
       IN  /\ top.i <= Len(top.acts)
           /\ sub' = [sub EXCEPT !.history = Append(@, ActionLeastSquare(top.acts[top.i]))]
           /\ arg' = DoAction(top.pos, top.acts[top.i])
           /\ pc' = IF Len(sub.history) >= HISTORY_CAP THEN "ub" ELSE "dfs"
    /\ UNCHANGED <<input, ret, stack, dp, cur, solution, result, best_score,
                   best_ans, sweep, seen, posVars>>

\* After the loop: the entry is set to gain_ub_new, which is returned.
S2DfsFinish ==
    /\ pc = "loop"
    /\ LET top == stack[Len(stack)]
       IN  /\ top.i > Len(top.acts)
           /\ dp' = S2DpTableSetGainUb(dp, top.dp_idx, top.gain_ub_new)
           /\ ret' = top.gain_ub_new
           /\ stack' = SubSeq(stack, 1, Len(stack) - 1)
           /\ pc' = IF top.gain_ub_new = 0 THEN "ub" ELSE "return"
    /\ UNCHANGED <<input, arg, cur, solution, result, best_score, best_ans, sub,
                   sweep, seen, posVars>>

\* A call of dfs returned into the loop of its caller.
S2DfsReturn ==
    /\ pc = "return"
    /\ stack # << >>
    /\ LET top == stack[Len(stack)]
           gain_action == score_erase(ActionSquareCount(top.acts[top.i]))
       IN  stack' = [stack EXCEPT ![Len(stack)] =
                        [top EXCEPT !.gain_ub_new = Chmax(@, gain_action + ret),
                                    !.i = @ + 1]]
    /\ sub' = [sub EXCEPT !.history = SubSeq(@, 1, Len(@) - 1)]
    /\ pc' = "loop"
    /\ UNCHANGED <<input, arg, ret, dp, cur, solution, result, best_score,
                   best_ans, sweep, seen, posVars>>

\* Mutant of S2SolveReturn: the generation is incremented only when the
\* call returns Some.
S2SolveReturnSomeOnly ==
    /\ pc = "return"
    /\ stack = << >>
    /\ IF sub.best_solution.some
       THEN /\ dp' = S2DpTableIncrementTime(dp)
            /\ best_score' = sub.best_score
            /\ result' = [kind |-> "Some", score |-> sub.best_score,
                          solution |-> sub.best_solution.hist]
       ELSE /\ result' = [kind |-> "None"]
            /\ UNCHANGED <<best_score, dp>>
    /\ pc' = "done"
    /\ UNCHANGED <<input, arg, ret, stack, cur, solution, best_ans, sub, sweep,
                   seen, posVars>>

\* The root call returned: SubSolver::solve hands back best_solution with
\* best_score, Solver::solve increments the generation and, on Some, takes
\* over the score.
S2SolveReturn ==
    /\ pc = "return"
    /\ stack = << >>
    /\ dp' = S2DpTableIncrementTime(dp)
    /\ IF sub.best_solution.some
       THEN /\ best_score' = sub.best_score
            /\ result' = [kind |-> "Some", score |-> sub.best_score,
                          solution |-> sub.best_solution.hist]
       ELSE /\ result' = [kind |-> "None"]
            /\ UNCHANGED best_score
    /\ pc' = "done"
    /\ UNCHANGED <<input, arg, ret, stack, cur, solution, best_ans, sub, sweep,
                   seen, posVars>>

S2Next ==
    \/ S2Solve
    \/ S2Dfs
    \/ S2DfsLoop
    \/ S2DfsFinish
    \/ S2DfsReturn
    \/ S2SolveReturn

SpecSolver2 == S2Init /\ [][S2Next]_vars

SpecGenerations == GenerationsInit /\ [][S2Next]_vars

(***************************************************************************)
(* C9: with best_score carried from call to call, Solver::solve of         *)
(* solver2.rs returns Some((s, h)) exactly when the optimum of the board   *)
(* is greater than best_score before the call; then s is the optimum,      *)
(* best_score becomes s and h replays on the board to s.  Otherwise it     *)
(* returns None and best_score is unchanged.                               *)
(***************************************************************************)
Solver2FindsImprovements ==
    /\ pc # "ub"
    /\ pc = "done" =>
        IF BestScoreOf[input] > sweep.before
        THEN /\ result.kind = "Some"
             /\ result.score = BestScoreOf[input]
             /\ best_score = result.score
             /\ Replay(input, result.solution).legal
             /\ ReplayScore(input, result.solution) = result.score
        ELSE /\ result.kind = "None"
             /\ best_score = sweep.before

\* The second board given to a Solver improved on a score that the first
\* board had already raised, after at least two captures.
Solver2ImprovedTwice ==
    /\ pc = "done"
    /\ sweep.n = 2
    /\ result.kind = "Some"
    /\ sweep.before \notin IniScores
    /\ Len(result.solution) >= 2

\* A board was given whose optimum is positive and not above best_score.
Solver2NothingBetter ==
    /\ pc = "done"
    /\ result.kind = "None"
    /\ BestScoreOf[input] > 0

(***************************************************************************)
(* rng.rs: the generator of the game and gen_board.                        *)
(***************************************************************************)
U16 == 2 ^ 16

U8 == 2 ^ 8

\* Mutant of GameRngGen: the feedback bit is taken from bit 15.
GameRngGenBit15(state, counter) ==
    LET bit == BitXor(state \div (2 ^ 15), state) % 2
        s1 == BitXor(state, BitOr((state * (2 ^ 8)) % U16, counter))
        s2 == BitOr((s1 * 2) % U16, bit)
    IN  [state |-> s2, value |-> BitXor(s2, s2 \div (2 ^ 8)) % U8]

\* gen: the new state and the byte returned.
GameRngGen(state, counter) ==
    LET bit == BitXor(state \div (2 ^ 14), state) % 2
        s1 == BitXor(state, BitOr((state * (2 ^ 8)) % U16, counter))
        s2 == BitOr((s1 * 2) % U16, bit)
    IN  [state |-> s2, value |-> BitXor(s2, s2 \div (2 ^ 8)) % U8]

GameRngGenPiece(state, counter) ==
    LET g == GameRngGen(state, counter)
    IN  [state |-> g.state, piece |-> (1 + ((5 * g.value) \div (2 ^ 8))) % U8]

\* The pieces gen_board draws, in drawing order: the first inc_counter_after
\* with counter, the others with counter + 1 (wrapping).
RECURSIVE GenPieces(_, _, _, _)
GenPieces(state, counter, inc_counter_after, drawn) ==
    IF drawn = SquareNum THEN << >>
    ELSE LET g == GameRngGenPiece(state,
                      IF drawn < inc_counter_after THEN counter
                      ELSE (counter + 1) % U8)
         IN  <<g.piece>> \o GenPieces(g.state, counter, inc_counter_after, drawn + 1)

\* Mutant of GenBoardArrays: the drawing order is read column-major.
GenBoardArraysColumnMajor(state, counter, inc_counter_after) ==
    LET pieces == GenPieces(state, counter, inc_counter_after, 0)
    IN  [sq \in Squares |-> pieces[sq]]

\* The piece arrays handed to Board::from_piece_arrays: the drawing order is
\* row-major from the bottom row.
GenBoardArrays(state, counter, inc_counter_after) ==
    LET pieces == GenPieces(state, counter, inc_counter_after, 0)
    IN  [sq \in Squares |-> pieces[ColNum * (SquareRow(sq) - 1) + (SquareCol(sq) - 1) + 1]]

(***************************************************************************)
(* solver_many.rs: the sweep over the generator's parameters.              *)
(***************************************************************************)
\* The windows the ranges of a sweep are taken from, and the starting
\* values of best_score.
SweepStates == 15..17

SweepCounters == 0..1

SweepIncTimings == 3..4

ManyIniScores == {0, 4}

Intervals(S) == {r \in S \X S : r[1] <= r[2]}

MANY_GAIN_MAX_BITS == 12

ManyDpNone == [time |-> 0, value_gain_max |-> 0, key_hi |-> {}]

ManyDpEntryNew(time, key, gain_max) ==
    [time |-> time, value_gain_max |-> 1 + gain_max, key_hi |-> calc_key_hi(key)]

ManyDpEntryGainMax(entry) == (entry.value_gain_max % (2 ^ MANY_GAIN_MAX_BITS)) - 1

ManyDpEntrySetGainMax(entry, gain_max) ==
    [entry EXCEPT !.value_gain_max =
        BitOr(@ - (@ % (2 ^ MANY_GAIN_MAX_BITS)), 1 + gain_max)]

ManyDpTableNew ==
    [time |-> 0, entry_count |-> 0,
     array |-> [idx \in 0..(DP_TABLE_CAP - 1) |-> ManyDpNone]]

ManyDpTableClear(table) == ManyDpTableNew

ManyDpTableSetTime(table, time) == [table EXCEPT !.time = time, !.entry_count = 0]

RECURSIVE ManyDpTableProbeFrom(_, _, _, _)
ManyDpTableProbeFrom(table, key, idx, visited) ==
    LET entry == table.array[idx]
        created == [kind |-> "Created", idx |-> idx,
                    table |-> [table EXCEPT
                                  !.entry_count = @ + 1,
                                  !.array[idx] = ManyDpEntryNew(table.time, key, 0)]]
    IN  IF visited = DP_TABLE_CAP THEN [kind |-> "Spin", table |-> table]
        ELSE IF entry = ManyDpNone THEN created
        ELSE IF entry.time # table.time THEN created
        ELSE IF entry.key_hi = calc_key_hi(key)
        THEN [kind |-> "Found", gain_max |-> ManyDpEntryGainMax(entry), table |-> table]
        ELSE ManyDpTableProbeFrom(table, key, (idx + 1) % DP_TABLE_CAP, visited + 1)

ManyDpTableProbe(table, key) ==
    ManyDpTableProbeFrom(table, key, key.lo % DP_TABLE_CAP, 0)

ManyDpTableSetGainMax(table, idx, gain_max) ==
    [table EXCEPT !.array[idx] = ManyDpEntrySetGainMax(@, gain_max)]

\* score_upper_bound: the shallow search of depth_remain plies over the leaf
\* bound.
RECURSIVE score_upper_bound(_, _)
score_upper_bound(p, depth_remain) ==
    IF depth_remain = 0 THEN score_upper_bound_leaf(p)
    ELSE LET acts == PositionActions(p)
             score_ub_max ==
                MaxOf({0} \cup {score_erase(ActionSquareCount(acts[i]))
                                   + score_upper_bound(DoAction(p, acts[i]), depth_remain - 1)
                                : i \in 1..Len(acts)})
         IN  IF score_ub_max = 0
             THEN (IF BoardIsEmpty(p.board) THEN SCORE_PERFECT ELSE 0)
             ELSE score_ub_max

\* Mutant of ShallowPrune: a board is dropped as soon as its bound does not
\* exceed best_score by more than the perfect bonus.
ShallowPruneEager(p, best) ==
    \E depth \in 0..3 : score_upper_bound(p, depth) <= best + SCORE_PERFECT

\* The test at the head of solve_one.
ShallowPrune(p, best) == \E depth \in 0..3 : score_upper_bound(p, depth) <= best

ManyFrame(p, idx) ==
    [pos |-> p, acts |-> PositionActions(p), i |-> 1, gain_max |-> 0, dp_idx |-> idx]

\* The loop variables after the body of the state loop has run for the
\* current triple, and where control goes: the next state, the next
\* (counter, inc_timing) pair, or the end of both loops.
NextTriple(sw) ==
    IF sw.state < sw.states[2]
    THEN [pc |-> "state", sweep |-> [sw EXCEPT !.state = @ + 1]]
    ELSE IF sw.inc_timing < sw.inc_timings[2]
    THEN [pc |-> "pair",
          sweep |-> [sw EXCEPT !.inc_timing = @ + 1, !.state = sw.states[1]]]
    ELSE IF sw.counter < sw.counters[2]
    THEN [pc |-> "pair",
          sweep |-> [sw EXCEPT !.counter = @ + 1, !.inc_timing = sw.inc_timings[1],
                               !.state = sw.states[1]]]
    ELSE [pc |-> "finish", sweep |-> sw]

\* What Solver::solve does with the pair solve_one returned.
\* Mutant of ManyRecord: a score equal to best_score replaces the answer.
ManyRecordNotStrict(score, history) ==
    IF score >= best_score
    THEN /\ best_score' = score
         /\ best_ans' = [kind |-> "Some", rng_state |-> sweep.state,
                         rng_counter |-> sweep.counter,
                         rng_inc_timing |-> sweep.inc_timing,
                         score |-> score, solution |-> history]
    ELSE UNCHANGED <<best_score, best_ans>>

ManyRecord(score, history) ==
    IF score > best_score
    THEN /\ best_score' = score
         /\ best_ans' = [kind |-> "Some", rng_state |-> sweep.state,
                         rng_counter |-> sweep.counter,
                         rng_inc_timing |-> sweep.inc_timing,
                         score |-> score, solution |-> history]
    ELSE UNCHANGED <<best_score, best_ans>>

\* solve_problems_many with non-empty ranges: Solver::new(best_score_ini).
ManyInit ==
    /\ pos = PosIdle
    /\ op = OpIdle
    /\ pc = "pair"
    /\ input = BoardEmpty
    /\ arg = NoPosition
    /\ ret = 0
    /\ stack = << >>
    /\ dp = ManyDpTableNew
    /\ cur = NoPosition
    /\ solution = << >>
    /\ result = [kind |-> "none"]
    /\ best_score \in ManyIniScores
    /\ best_ans = [kind |-> "None"]
    /\ sub = [kind |-> "none"]
    /\ \E states \in Intervals(SweepStates), counters \in Intervals(SweepCounters),
          inc_timings \in Intervals(SweepIncTimings) :
          sweep = [ini |-> best_score, states |-> states, counters |-> counters,
                   inc_timings |-> inc_timings, counter |-> counters[1],
                   inc_timing |-> inc_timings[1], state |-> states[1]]
    /\ seen = {}

\* The head of the loop over (counter, inc_timing): the table is cleared.
ManyPair ==
    /\ pc = "pair"
    /\ dp' = ManyDpTableClear(dp)
    /\ pc' = "state"
    /\ UNCHANGED <<input, arg, ret, stack, cur, solution, result, sweepVars, posVars>>

\* gen_board returns None (Board::from_piece_arrays rejects the arrays).
ManyGenNone ==
    /\ pc = "state"
    /\ pc' = NextTriple(sweep).pc
    /\ sweep' = NextTriple(sweep).sweep
    /\ UNCHANGED <<input, arg, ret, stack, dp, cur, solution, result, best_score,
                   best_ans, sub, seen, posVars>>

\* gen_board returns the board of the arrays; Position::new.
ManyGenBoard ==
    /\ pc = "state"
    /\ input' = GenBoardArrays(sweep.state, sweep.counter, sweep.inc_timing)
    /\ arg' = PositionNew(input')
    /\ seen' = seen \cup {input'}
    /\ pc' = "solve_one"
    /\ UNCHANGED <<ret, stack, dp, cur, solution, result, best_score, best_ans,
                   sub, sweep, posVars>>

\* solve_one returns (0, empty history) from its shallow bounds.
ManySolveOnePruned ==
    /\ pc = "solve_one"
    /\ ShallowPrune(arg, best_score)
    /\ ManyRecord(0, << >>)
    /\ pc' = NextTriple(sweep).pc
    /\ sweep' = NextTriple(sweep).sweep
    /\ UNCHANGED <<input, arg, ret, stack, dp, cur, solution, result, sub, seen,
                   posVars>>

\* solve_one goes on: set_time(state) and the root call of dfs.
ManySolveOneSearch ==
    /\ pc = "solve_one"
    /\ ~ShallowPrune(arg, best_score)
    /\ dp' = ManyDpTableSetTime(dp, sweep.state)
    /\ pc' = "dfs"
    /\ UNCHANGED <<input, arg, ret, stack, cur, solution, result, sweepVars, posVars>>

\* dfs, from its entry to its first return or to the start of the loop.
ManyDfs ==
    /\ pc = "dfs"
    /\ IF BoardIsEmpty(arg.board)
       THEN /\ ret' = SCORE_PERFECT
            /\ pc' = "return"
            /\ UNCHANGED <<dp, stack>>
       ELSE LET probe == ManyDpTableProbe(dp, arg.key)
            IN  /\ dp' = probe.table
                /\ CASE probe.kind = "Found" ->
                            /\ ret' = probe.gain_max
                            /\ pc' = "return"
                            /\ UNCHANGED stack
                     [] probe.kind = "Created" ->
                            /\ stack' = Append(stack, ManyFrame(arg, probe.idx))
                            /\ pc' = "loop"
                            /\ UNCHANGED ret
                     [] probe.kind = "Spin" ->
                            /\ pc' = "spin"
                            /\ UNCHANGED <<ret, stack>>
    /\ UNCHANGED <<input, arg, cur, solution, result, sweepVars, posVars>>

ManyDfsLoop ==
    /\ pc = "loop"
    /\ LET top == stack[Len(stack)]
       IN  /\ top.i <= Len(top.acts)
           /\ arg' = DoAction(top.pos, top.acts[top.i])
           /\ pc' = "dfs"
    /\ UNCHANGED <<input, ret, stack, dp, cur, solution, result, sweepVars, posVars>>

ManyDfsFinish ==
    /\ pc = "loop"
    /\ LET top == stack[Len(stack)]
       IN  /\ top.i > Len(top.acts)
           /\ IF top.gain_max = 0
              THEN /\ ret' = 0
                   /\ UNCHANGED dp
              ELSE /\ dp' = ManyDpTableSetGainMax(dp, top.dp_idx, top.gain_max)
                   /\ ret' = top.gain_max
           /\ stack' = SubSeq(stack, 1, Len(stack) - 1)
           /\ pc' = "return"
    /\ UNCHANGED <<input, arg, cur, solution, result, sweepVars, posVars>>

ManyDfsReturn ==
    /\ pc = "return"
    /\ stack # << >>
    /\ LET top == stack[Len(stack)]
           gain_action == score_erase(ActionSquareCount(top.acts[top.i]))
       IN  stack' = [stack EXCEPT ![Len(stack)] =
                        [top EXCEPT !.gain_max = Chmax(@, gain_action + ret),
                                    !.i = @ + 1]]
    /\ pc' = "loop"
    /\ UNCHANGED <<input, arg, ret, dp, cur, solution, result, sweepVars, posVars>>

\* The root call returned into solve_one: the reconstruction starts.
ManyDfsRoot ==
    /\ pc = "return"
    /\ stack = << >>
    /\ solution' = << >>
    /\ cur' = PositionNew(input)
    /\ pc' = "restore"
    /\ UNCHANGED <<input, arg, ret, stack, dp, result, sweepVars, posVars>>

RECURSIVE ManyRestoreProbes(_, _, _, _)
ManyRestoreProbes(table, p, acts, i) ==
    IF i > Len(acts) THEN << >>
    ELSE LET child == DoAction(p, acts[i])
         IN  IF BoardIsEmpty(child.board)
             THEN <<[kind |-> "Found", gain_max |-> SCORE_PERFECT, table |-> table]>>
                    \o ManyRestoreProbes(table, p, acts, i + 1)
             ELSE LET probe == ManyDpTableProbe(table, child.key)
                  IN  <<probe>> \o ManyRestoreProbes(probe.table, p, acts, i + 1)

\* One iteration of the reconstruction loop of solve_one; when the loop
\* breaks, solve_one returns and Solver::solve records the pair.
ManyRestore ==
    /\ pc = "restore"
    /\ LET acts == PositionActions(cur)
           probes == ManyRestoreProbes(dp, cur, acts, 1)
           missing == {i \in 1..Len(acts) : probes[i].kind # "Found"}
           keys == [i \in 1..Len(acts) |->
                        score_erase(ActionSquareCount(acts[i])) + probes[i].gain_max]
       IN  IF Len(acts) = 0
           THEN /\ ManyRecord(ret, solution)
                /\ pc' = NextTriple(sweep).pc
                /\ sweep' = NextTriple(sweep).sweep
                /\ UNCHANGED <<dp, cur, solution>>
           ELSE IF missing # {}
           THEN /\ dp' = probes[MinOf(missing)].table
                /\ pc' = IF probes[MinOf(missing)].kind = "Spin" THEN "spin" ELSE "panic"
                /\ UNCHANGED <<cur, solution, best_score, best_ans, sweep>>
           ELSE IF Len(solution) >= HISTORY_CAP
           THEN /\ pc' = "panic"
                /\ UNCHANGED <<dp, cur, solution, best_score, best_ans, sweep>>
           ELSE /\ solution' = Append(solution, ActionLeastSquare(acts[MaxByKey(keys)]))
                /\ cur' = DoAction(cur, acts[MaxByKey(keys)])
                /\ UNCHANGED <<pc, dp, best_score, best_ans, sweep>>
    /\ UNCHANGED <<input, arg, ret, stack, result, sub, seen, posVars>>

\* After both loops: self.best_ans.unwrap().
ManyFinish ==
    /\ pc = "finish"
    /\ IF best_ans.kind = "Some"
       THEN /\ result' = best_ans
            /\ pc' = "done"
       ELSE /\ pc' = "panic"
            /\ UNCHANGED result
    /\ UNCHANGED <<input, arg, ret, stack, dp, cur, solution, sweepVars, posVars>>

ManyNext ==
    \/ ManyPair
    \/ ManyGenNone
    \/ ManyGenBoard
    \/ ManySolveOnePruned
    \/ ManySolveOneSearch
    \/ ManyDfs
    \/ ManyDfsLoop
    \/ ManyDfsFinish
    \/ ManyDfsReturn
    \/ ManyDfsRoot
    \/ ManyRestore
    \/ ManyFinish

SpecMany == ManyInit /\ [][ManyNext]_vars

\* BestScore on the boards a sweep can generate, tabulated.
BestScoreOfSweep ==
    [board \in {GenBoardArrays(s, c, i) :
                    s \in SweepStates, c \in SweepCounters, i \in SweepIncTimings}
        |-> BestScore(board)]

\* The greatest optimum among the boards generated so far.
SeenMaximum == MaxOf({BestScoreOfSweep[board] : board \in seen})

(***************************************************************************)
(* C8: with best_score_ini = 0 and any non-empty ranges,                   *)
(* solve_problems_many returns an answer, and the score of the answer is   *)
(* the maximum of the optimal scores of the boards gen_board produced for  *)
(* the triples of the ranges.                                              *)
(***************************************************************************)
SweepReturnsMaximum ==
    sweep.ini = 0 =>
        /\ pc # "panic"
        /\ pc = "done" => /\ seen # {}
                          /\ result.score = SeenMaximum

\* The sweep ended in the panic of unwrap although boards had been
\* generated and searched: none of them has a capture.
SweepPanicsWitness ==
    /\ sweep.ini = 0
    /\ pc = "panic"
    /\ seen # {}
    /\ best_ans.kind = "None"

\* C8, the part that holds of the sweep started at 0: an answer is returned
\* exactly when some generated board has a positive optimum, its score is
\* then the maximum of the optima and its history replays to that score on
\* the board of its triple; otherwise the sweep ends in the panic of unwrap.
SweepMaximumWhenFound ==
    sweep.ini = 0 =>
        /\ pc = "done" =>
            /\ seen # {}
            /\ result.score = SeenMaximum
            /\ result.score > 0
            /\ ReplayScore(GenBoardArrays(result.rng_state, result.rng_counter,
                                          result.rng_inc_timing),
                           result.solution) = result.score
        /\ pc = "panic" => \A board \in seen : BestScoreOfSweep[board] = 0
        /\ pc # "spin"

\* A sweep returned an answer after a later board had beaten an earlier one
\* and a board had been dropped by the shallow bounds.
SweepFoundWitness ==
    /\ sweep.ini = 0
    /\ pc = "done"
    /\ Cardinality(seen) >= 3
    /\ result.rng_state # sweep.states[1]
    /\ \E board \in seen : 0 < BestScoreOfSweep[board]
                           /\ BestScoreOfSweep[board] < result.score

(***************************************************************************)
(* Stuck positions in solver.rs.                                           *)
(***************************************************************************)
\* The board a key stands for: the key is the XOR of the (piece, square)
\* keys of the occupied squares.
BoardOfKey(key_hi) ==
    [sq \in Squares |->
        IF \E piece \in Pieces : <<piece, sq>> \in key_hi
        THEN CHOOSE piece \in Pieces : <<piece, sq>> \in key_hi
        ELSE 0]

\* The slots whose dfs call has not returned yet.
SlotsInProgress == {stack[k].dp_idx : k \in 1..Len(stack)}

\* C11: a non-empty board without a legal capture is solved to (0, empty
\* history); a dfs call on a non-empty position is about to return gain 0
\* exactly when the position has no legal capture, and a table entry whose
\* call has returned holds 0 exactly when its position has no legal capture,
\* so the provisional 0 of a stuck position is never overwritten.
StuckPositionsGainZero ==
    /\ (pc = "done" /\ ~BoardIsEmpty(input) /\ LegalCaptures(input) = {})
            => result = [score |-> 0, solution |-> << >>]
    /\ (pc = "loop" /\ stack[Len(stack)].i > Len(stack[Len(stack)].acts))
            => (stack[Len(stack)].gain_max = 0
                    <=> LegalCaptures(stack[Len(stack)].pos.board) = {})
    /\ pc \in {"dfs", "loop", "return", "restore", "done"} =>
            \A idx \in DOMAIN dp.array :
                (dp.array[idx] # HashTableNone /\ idx \notin SlotsInProgress)
                    => (HashTableEntryGainMax(dp.array[idx]) = 0
                            <=> LegalCaptures(BoardOfKey(dp.array[idx].key_hi)) = {})

\* A stuck non-empty board was solved: its only entry still holds the
\* provisional 0.
StuckSolvedWitness ==
    /\ pc = "done"
    /\ ~BoardIsEmpty(input)
    /\ LegalCaptures(input) = {}
    /\ result = [score |-> 0, solution |-> << >>]
    /\ dp.entry_count = 1
    /\ \E idx \in DOMAIN dp.array :
          /\ dp.array[idx].key_hi = calc_key_hi(PositionNew(input).key)
          /\ dp.array[idx].value_gain_max = 1

(***************************************************************************)
(* square.rs and action.rs: text input and output.  A text is a sequence   *)
(* of characters; a parse result is [ok, value].                           *)
(***************************************************************************)
Digits == <<"0", "1", "2", "3", "4", "5", "6", "7", "8", "9">>

IsDigit(ch) == \E d \in 1..10 : Digits[d] = ch

DigitValue(ch) == (CHOOSE d \in 1..10 : Digits[d] = ch) - 1

ParseOk(value) == [ok |-> TRUE, value |-> value]

ParseErr == [ok |-> FALSE, value |-> 0]

\* Display of an unsigned integer: its decimal digits, no leading zero.
RECURSIVE U8Display(_)
U8Display(n) ==
    IF n < 10 THEN <<Digits[n + 1]>>
    ELSE U8Display(n \div 10) \o <<Digits[(n % 10) + 1]>>

\* The digit loop of u8::from_str: every character must be a digit and the
\* value must stay below 2^8.
RECURSIVE U8ParseDigits(_, _)
U8ParseDigits(s, acc) ==
    IF s = << >> THEN ParseOk(acc)
    ELSE IF ~IsDigit(Head(s)) THEN ParseErr
    ELSE IF 10 * acc + DigitValue(Head(s)) >= U8 THEN ParseErr
    ELSE U8ParseDigits(Tail(s), 10 * acc + DigitValue(Head(s)))

\* u8::from_str: an optional "+", then at least one digit.
U8Parse(s) ==
    IF s = << >> THEN ParseErr
    ELSE IF Head(s) = "+"
    THEN (IF Tail(s) = << >> THEN ParseErr ELSE U8ParseDigits(Tail(s), 0))
    ELSE U8ParseDigits(s, 0)

\* str::split(sep): the fields between the separators, empty fields kept.
RECURSIVE SplitFrom(_, _, _)
SplitFrom(s, sep, field) ==
    IF s = << >> THEN <<field>>
    ELSE IF Head(s) = sep THEN <<field>> \o SplitFrom(Tail(s), sep, << >>)
    ELSE SplitFrom(Tail(s), sep, Append(field, Head(s)))

Split(s, sep) == SplitFrom(s, sep, << >>)

\* str::split_ascii_whitespace: the non-empty fields between blanks.
SplitAsciiWhitespace(s) ==
    SelectSeq(Split(s, " "), LAMBDA field : field # << >>)

ColFromInner(inner) == IF inner \in Cols THEN ParseOk(inner) ELSE ParseErr

RowFromInner(inner) == IF inner \in Rows THEN ParseOk(inner) ELSE ParseErr

ColFromStr(s) ==
    IF U8Parse(s).ok THEN ColFromInner(U8Parse(s).value) ELSE ParseErr

RowFromStr(s) ==
    IF U8Parse(s).ok THEN RowFromInner(U8Parse(s).value) ELSE ParseErr

ColDisplay(col) == U8Display(col)

RowDisplay(row) == U8Display(row)

SquareToIndex(sq) == sq - 1

SquareFromStr(s) ==
    LET fields == Split(s, ",")
    IN  IF Len(fields) # 2 THEN ParseErr
        ELSE IF ~ColFromStr(fields[1]).ok THEN ParseErr
        ELSE IF ~RowFromStr(fields[2]).ok THEN ParseErr
        ELSE ParseOk(SquareNew(ColFromStr(fields[1]).value,
                               RowFromStr(fields[2]).value))

SquareDisplay(sq) ==
    ColDisplay(SquareCol(sq)) \o <<",">> \o RowDisplay(SquareRow(sq))

\* collect() of the parsed tokens: the first error, or all the squares.
RECURSIVE CollectSquares(_)
CollectSquares(tokens) ==
    IF tokens = << >> THEN [ok |-> TRUE, value |-> << >>]
    ELSE IF ~SquareFromStr(Head(tokens)).ok THEN [ok |-> FALSE, value |-> << >>]
    ELSE LET rest == CollectSquares(Tail(tokens))
         IN  IF ~rest.ok THEN rest
             ELSE [ok |-> TRUE,
                   value |-> <<SquareFromStr(Head(tokens)).value>> \o rest.value]

\* Mutant of ActionHistoryFromStr: the number of tokens is not checked.
ActionHistoryFromStrAnyLength(s) == CollectSquares(SplitAsciiWhitespace(s))

ActionHistoryFromStr(s) ==
    IF Len(SplitAsciiWhitespace(s)) > HISTORY_CAP
    THEN [ok |-> FALSE, value |-> << >>]
    ELSE CollectSquares(SplitAsciiWhitespace(s))

RECURSIVE ActionHistoryDisplayFrom(_, _)
ActionHistoryDisplayFrom(h, i) ==
    IF i > Len(h) THEN << >>
    ELSE (IF i # 1 THEN <<" ">> ELSE << >>)
            \o SquareDisplay(h[i]) \o ActionHistoryDisplayFrom(h, i + 1)

ActionHistoryDisplay(h) == ActionHistoryDisplayFrom(h, 1)

(***************************************************************************)
(* Squares and their texts: the inputs are drawn by the initial state and  *)
(* each action applies the functions to its input.                         *)
(***************************************************************************)
\* Numbers written in the column and row fields of a token, in and out of
\* range, with two and three digits.
TokenCols == (0..(ColNum + 1)) \cup {10, U8}

TokenRows == (0..(RowNum + 1)) \cup {10, U8}

Tokens == [col : TokenCols, row : TokenRows]

ValidTokens == [col : Cols, row : Rows]

SeqsUpTo(S, n) == UNION {[1..k -> S] : k \in 0..n}

\* Token sequences: valid tokens up to one more than the capacity, and short
\* sequences with one token out of range.
TokenSeqs ==
    SeqsUpTo(ValidTokens, HISTORY_CAP + 1)
        \cup {[tokens EXCEPT ![i] = bad] :
                <<tokens, i, bad>> \in {t \in SeqsUpTo(ValidTokens, 2) \X (1..2) \X Tokens :
                                            t[2] <= Len(t[1])}}

Blanks(n) == [k \in 1..n |-> " "]

\* The text of a token sequence, the tokens separated by sep blanks and, for
\* sep > 1, also surrounded by blanks.
RECURSIVE TokensText(_, _, _)
TokensText(tokens, i, sep) ==
    IF i > Len(tokens) THEN Blanks(sep - 1)
    ELSE (IF i # 1 THEN Blanks(sep) ELSE Blanks(sep - 1))
            \o U8Display(tokens[i].col) \o <<",">> \o U8Display(tokens[i].row)
            \o TokensText(tokens, i + 1, sep)

SquareInit ==
    /\ pos = PosIdle
    /\ \/ op \in [kind : {"new"}, col : Cols, row : Rows]
       \/ op \in [kind : {"col_row"}, sq : Squares]
       \/ op \in [kind : {"print"}, history : SeqsUpTo(Squares, HISTORY_CAP)]
       \/ \E tokens \in TokenSeqs, sep \in 1..2 :
            op = [kind |-> "parse", tokens |-> tokens,
                  text |-> TokensText(tokens, 1, sep)]
    /\ DfsIdle
    /\ SweepIdle

\* test_square_new: Square::new, then col and row of the result.
SquareNewColRow ==
    /\ op.kind = "new"
    /\ op' = [kind |-> "new_done", col |-> op.col, row |-> op.row,
              sq |-> SquareNew(op.col, op.row),
              sq_col |-> SquareCol(SquareNew(op.col, op.row)),
              sq_row |-> SquareRow(SquareNew(op.col, op.row))]
    /\ UNCHANGED <<pos, dfsVars, sweepVars>>

\* col, row and to_index of a square, then Square::new of the two; and
\* test_square_io: the square is printed and the text is parsed.
SquareColRowNew ==
    /\ op.kind = "col_row"
    /\ op' = [kind |-> "col_row_done", sq |-> op.sq,
              col |-> SquareCol(op.sq), row |-> SquareRow(op.sq),
              index |-> SquareToIndex(op.sq),
              sq_new |-> SquareNew(SquareCol(op.sq), SquareRow(op.sq)),
              text |-> SquareDisplay(op.sq),
              parsed |-> SquareFromStr(SquareDisplay(op.sq))]
    /\ UNCHANGED <<pos, dfsVars, sweepVars>>

\* A history is printed and the text is parsed.
HistoryPrintParse ==
    /\ op.kind = "print"
    /\ op' = [kind |-> "print_done", history |-> op.history,
              text |-> ActionHistoryDisplay(op.history),
              parsed |-> ActionHistoryFromStr(ActionHistoryDisplay(op.history))]
    /\ UNCHANGED <<pos, dfsVars, sweepVars>>

\* A text is parsed as a history.
HistoryParse ==
    /\ op.kind = "parse"
    /\ op' = [kind |-> "parse_done", tokens |-> op.tokens, text |-> op.text,
              parsed |-> ActionHistoryFromStr(op.text)]
    /\ UNCHANGED <<pos, dfsVars, sweepVars>>

SquareNext ==
    \/ SquareNewColRow
    \/ SquareColRowNew
    \/ HistoryPrintParse
    \/ HistoryParse

SpecSquare == SquareInit /\ [][SquareNext]_vars

\* C12: Square::new followed by col and row gives the column and the row
\* back; col and row followed by Square::new gives the square back, and the
\* 0-based index of a square is RowNum * (col - 1) + (row - 1).
SquareRoundTrip ==
    /\ op.kind = "new_done" =>
            /\ op.sq \in Squares
            /\ op.sq_col = op.col
            /\ op.sq_row = op.row
    /\ op.kind = "col_row_done" =>
            /\ op.col \in Cols
            /\ op.row \in Rows
            /\ op.sq_new = op.sq
            /\ op.index = RowNum * (op.col - 1) + (op.row - 1)

\* Square::new was applied to the last column and the first row, which no
\* exchange of columns and rows maps to the same square.
SquareRoundTripWitness ==
    /\ op.kind = "new_done"
    /\ op.col = ColNum
    /\ op.row = 1
    /\ op.sq = RowNum * (ColNum - 1) + 1
    /\ op.sq_col = ColNum

TokenValid(token) == token.col \in Cols /\ token.row \in Rows

\* C13: the text printed for a history parses to that history and the text
\* "C,R" printed for a square parses to that square; a text of more than
\* HISTORY_CAP tokens, or with a token whose column or row is out of range,
\* does not parse; a text of at most HISTORY_CAP tokens in range parses to
\* the squares of its tokens.
HistoryTextRoundTrip ==
    /\ op.kind = "print_done" => op.parsed = [ok |-> TRUE, value |-> op.history]
    /\ op.kind = "col_row_done" =>
            /\ op.text = <<Digits[op.col + 1], ",", Digits[op.row + 1]>>
            /\ op.parsed = ParseOk(op.sq)
    /\ op.kind = "parse_done" =>
            IF \/ Len(op.tokens) > HISTORY_CAP
               \/ \E i \in 1..Len(op.tokens) : ~TokenValid(op.tokens[i])
            THEN ~op.parsed.ok
            ELSE op.parsed =
                    [ok |-> TRUE,
                     value |-> [i \in 1..Len(op.tokens) |->
                                    RowNum * (op.tokens[i].col - 1) + op.tokens[i].row]]

\* A full history of distinct squares was printed and parsed back, the
\* text being HISTORY_CAP tokens of three characters and the blanks between.
HistoryTextWitness ==
    /\ op.kind = "print_done"
    /\ Len(op.history) = HISTORY_CAP
    /\ Cardinality({op.history[i] : i \in 1..HISTORY_CAP}) = HISTORY_CAP
    /\ Len(op.text) = 4 * HISTORY_CAP - 1
    /\ op.parsed.ok

(***************************************************************************)
(* rng.rs as functions of their inputs: the inputs are drawn by the        *)
(* initial state and each action applies gen_piece or gen_board.           *)
(***************************************************************************)
\* The state of the generator after gen_board.
RECURSIVE GenBoardState(_, _, _, _)
GenBoardState(state, counter, inc_counter_after, drawn) ==
    IF drawn = SquareNum THEN state
    ELSE GenBoardState(GameRngGenPiece(state,
                            IF drawn < inc_counter_after THEN counter
                            ELSE (counter + 1) % U8).state,
                       counter, inc_counter_after, drawn + 1)

\* Bytes with one bit set or one bit clear, and the two constant bytes.
ByteSamples ==
    {0, U8 - 1} \cup {2 ^ k : k \in 0..7} \cup {U8 - 1 - 2 ^ k : k \in 0..7}

RngStates == {U8 * hi + lo : hi \in ByteSamples, lo \in ByteSamples}

RngCounters == ByteSamples

BoardStates == (0..31) \cup {U16 - 1 - s : s \in 0..31}

BoardCounters == {0, 1, U8 - 2, U8 - 1}

RngInit ==
    /\ pos = PosIdle
    /\ \/ op \in [kind : {"gen_piece"}, state : RngStates, counter : RngCounters]
       \/ op \in [kind : {"gen_board"}, state : BoardStates, counter : BoardCounters,
                  inc_counter_after : 0..SquareNum]
    /\ DfsIdle
    /\ SweepIdle

\* gen_piece on a generator in op.state: the byte of gen, the piece, and
\* the state left in the generator.
RngGenPiece ==
    /\ op.kind = "gen_piece"
    /\ op' = [kind |-> "gen_piece_done", state |-> op.state, counter |-> op.counter,
              value |-> GameRngGen(op.state, op.counter).value,
              piece |-> GameRngGenPiece(op.state, op.counter).piece,
              state_after |-> GameRngGenPiece(op.state, op.counter).state]
    /\ UNCHANGED <<pos, dfsVars, sweepVars>>

\* gen_board on a generator in op.state: the pieces in drawing order, the
\* arrays handed to Board::from_piece_arrays, which accepts or rejects them,
\* and the state left in the generator.
RngGenBoard ==
    /\ op.kind = "gen_board"
    /\ \E accepted \in BOOLEAN :
        op' = [kind |-> "gen_board_done", state |-> op.state, counter |-> op.counter,
               inc_counter_after |-> op.inc_counter_after,
               pieces |-> GenPieces(op.state, op.counter, op.inc_counter_after, 0),
               arrays |-> GenBoardArrays(op.state, op.counter, op.inc_counter_after),
               accepted |-> accepted,
               state_after |-> GenBoardState(op.state, op.counter,
                                             op.inc_counter_after, 0)]
    /\ UNCHANGED <<pos, dfsVars, sweepVars>>

RngNext ==
    \/ RngGenPiece
    \/ RngGenBoard

SpecRng == RngInit /\ [][RngNext]_vars

\* Bit i of x.
Bit(x, i) == (x \div (2 ^ i)) % 2

Xor1(a, b) == (a + b) % 2

\* C14: bit by bit, the state gen leaves is S2 = ((S1 << 1) | bit) with
\* bit = bit 14 of S xor bit 0 of S and S1 = S xor ((S << 8) | C), both of 16
\* bits; the byte returned is the low byte of S2 xor (S2 >> 8); gen_piece
\* gives 1 + floor(5 * byte / 256), which is in 1..5.
GenIsShiftRegister ==
    op.kind = "gen_piece_done" =>
        LET S1Bit(i) == IF i >= 8 THEN Xor1(Bit(op.state, i), Bit(op.state, i - 8))
                        ELSE Xor1(Bit(op.state, i), Bit(op.counter, i))
            S2Bit(i) == IF i = 0 THEN Xor1(Bit(op.state, 14), Bit(op.state, 0))
                        ELSE S1Bit(i - 1)
        IN  /\ op.state_after \in 0..(U16 - 1)
            /\ \A i \in 0..15 : Bit(op.state_after, i) = S2Bit(i)
            /\ op.value \in 0..(U8 - 1)
            /\ \A i \in 0..7 : Bit(op.value, i) = Xor1(S2Bit(i), S2Bit(i + 8))
            /\ op.piece = 1 + ((5 * op.value) \div 256)
            /\ op.piece \in 1..PieceNum

\* gen was applied to a state whose bits 14 and 15 differ, with a counter
\* that is not 0, and the byte gave the last piece.
GenWitness ==
    /\ op.kind = "gen_piece_done"
    /\ Bit(op.state, 14) # Bit(op.state, 15)
    /\ op.counter # 0
    /\ op.piece = PieceNum

\* C15: gen_board draws SquareNum pieces one after the other, the first
\* inc_counter_after of them with counter and the others with counter + 1
\* modulo 2^8; draw k (from 0) is the piece of column (k mod ColNum) + 1 and
\* row (k div ColNum) + 1; the generator is left in the state after these
\* draws, whether the arrays are accepted or not.
GenBoardDrawsInOrder ==
    op.kind = "gen_board_done" =>
        LET CounterAt(k) == IF k < op.inc_counter_after THEN op.counter
                            ELSE (op.counter + 1) % 256
            StateAt[k \in 0..SquareNum] ==
                IF k = 0 THEN op.state
                ELSE GameRngGen(StateAt[k - 1], CounterAt(k - 1)).state
            PieceAt(k) == 1 + ((5 * GameRngGen(StateAt[k], CounterAt(k)).value) \div 256)
        IN  /\ Len(op.pieces) = SquareNum
            /\ \A k \in 0..(SquareNum - 1) :
                    /\ op.pieces[k + 1] = PieceAt(k)
                    /\ op.arrays[RowNum * (k % ColNum) + (k \div ColNum) + 1] = PieceAt(k)
            /\ op.state_after = StateAt[SquareNum]

\* gen_board was applied with the counter at its last value and the
\* increment in the middle of the drawing, the arrays were rejected, and
\* the wrapped counter made a difference to the pieces.
GenBoardWitness ==
    /\ op.kind = "gen_board_done"
    /\ op.counter = U8 - 1
    /\ op.inc_counter_after \in 1..(SquareNum - 1)
    /\ ~op.accepted
    /\ op.pieces # GenPieces(op.state, op.counter, SquareNum, 0)
    /\ op.state_after # op.state

\* The squares on which from_board_square aborts: the empty ones and the
\* ones whose piece has no neighbour of its colour.
AbortSquares(board) ==
    {sq \in Squares :
        \/ board[sq] = 0
        \/ \A t \in Squares : Adjacent(sq, t) => board[t] # board[sq]}

\* C16: from_board_square on the board of a position and the least square
\* of one of its legal actions gives that action, piece and mask; distinct
\* legal actions have distinct least squares; the action just played is the
\* one its least square names on the board before the move; and
\* from_board_square aborts on an empty square and on a square whose
\* component is a single square.
LeastSquareNamesAction ==
    LET acts == PositionActions(pos)
    IN  /\ \A i \in 1..Len(acts) :
                ActionFromBoardSquare(pos.board, ActionLeastSquare(acts[i])) = acts[i]
        /\ \A i, j \in 1..Len(acts) :
                ActionLeastSquare(acts[i]) = ActionLeastSquare(acts[j]) => i = j
        /\ op.kind = "do_action" =>
                ActionFromBoardSquare(op.before.board, ActionLeastSquare(op.action))
                    = [piece |-> op.action.piece, mb |-> op.action.mb]
        /\ \A sq \in AbortSquares(pos.board) :
                ActionFromBoardSquare(pos.board, sq) = "abort"

\* A capture was played on a board that had another component of the same
\* colour, an empty square and a single piece.
LeastSquareWitness ==
    /\ op.kind = "do_action"
    /\ \E cap \in LegalCaptures(op.before.board) :
            /\ cap[1] = op.action.piece
            /\ cap[2] # op.action.mb
    /\ \E sq \in AbortSquares(op.before.board) : op.before.board[sq] = 0
    /\ \E sq \in AbortSquares(op.before.board) : op.before.board[sq] # 0

(***************************************************************************)
(* The two generational tables together: a Solver of solver2.rs given      *)
(* MaxGenerations boards, or a sweep of solver_many.rs.                    *)
(***************************************************************************)
InSolver2 == "limit" \in DOMAIN sweep

InSolverMany == "ini" \in DOMAIN sweep

TablesNext ==
    \/ InSolver2 /\ S2Solve
    \/ InSolver2 /\ S2Dfs
    \/ InSolver2 /\ S2DfsLoop
    \/ InSolver2 /\ S2DfsFinish
    \/ InSolver2 /\ S2DfsReturn
    \/ InSolver2 /\ S2SolveReturn
    \/ InSolverMany /\ ManyPair
    \/ InSolverMany /\ ManyGenNone
    \/ InSolverMany /\ ManyGenBoard
    \/ InSolverMany /\ ManySolveOnePruned
    \/ InSolverMany /\ ManySolveOneSearch
    \/ InSolverMany /\ ManyDfs
    \/ InSolverMany /\ ManyDfsLoop
    \/ InSolverMany /\ ManyDfsFinish
    \/ InSolverMany /\ ManyDfsReturn
    \/ InSolverMany /\ ManyDfsRoot
    \/ InSolverMany /\ ManyRestore
    \/ InSolverMany /\ ManyFinish

SpecTables == (GenerationsInit \/ ManyInit) /\ [][TablesNext]_vars

\* The slots that a probe of the current generation can find.
CurrentSlots == {idx \in DOMAIN dp.array : dp.array[idx].time = dp.time
                                            /\ dp.array[idx].key_hi # {}}

\* The boards reachable from a board by legal captures, the board included.
RECURSIVE ReachableBoards(_)
ReachableBoards(board) ==
    {board} \cup UNION {ReachableBoards(EraseReference(board, cap[2])) :
                            cap \in LegalCaptures(board)}

\* C17: in both tables the slots of the current generation are as many as
\* the entries created since the generation was set (entry_count), so each
\* of them was created while solving the current problem and none is left
\* from an earlier one, before and after a wrap of the generation; and
\* while a problem is searched each of them holds a position reachable from
\* the board of the problem.
NoEntryFromEarlierProblem ==
    /\ Cardinality(CurrentSlots) = dp.entry_count
    /\ pc \in {"dfs", "loop", "return", "restore"} =>
            \A idx \in CurrentSlots :
                BoardOfKey(dp.array[idx].key_hi) \in ReachableBoards(input)

\* A board is being solved after the generation of a Solver of solver2.rs
\* wrapped to 0, and two entries have been created for it.
GenerationWrappedWitness ==
    /\ InSolver2
    /\ sweep.n = 2 ^ TIME_BITS + 1
    /\ dp.time = 0
    /\ dp.entry_count >= 2

\* The calls of Solver::solve that have returned.
SolveCallsReturned == IF pc \in {"idle", "done"} THEN sweep.n ELSE sweep.n - 1

\* What increment_time does to the table, read off the two states of a step.
IncrementTimeStep ==
    /\ dp'.time = (dp.time + 1) % (2 ^ TIME_BITS)
    /\ dp'.entry_count = 0
    /\ IF dp.time + 1 < 2 ^ TIME_BITS
       THEN dp'.array = dp.array
       ELSE \A idx \in DOMAIN dp.array :
                dp'.array[idx] = [time |-> 0, gain_ub |-> 0, key_hi |-> {}]

\* C18: the step in which Solver::solve returns, with Some or with None, adds
\* 1 to the generation modulo 2^TIME_BITS and sets entry_count to 0; it
\* leaves every slot as it is when the generation does not wrap and makes
\* every slot absent when it wraps.  No other step changes the generation,
\* so the generation is the number of returned calls modulo 2^TIME_BITS.
IncrementTimeOncePerSolve ==
    /\ [](dp.time = SolveCallsReturned % (2 ^ TIME_BITS))
    /\ [][IF pc = "return" /\ stack = << >>
          THEN IncrementTimeStep /\ pc' = "done" /\ result'.kind \in {"Some", "None"}
          ELSE dp'.time = dp.time]_vars

\* A call returned None and wrapped the generation to 0, after an earlier
\* call that had returned Some.
IncrementTimeWitness ==
    /\ pc = "done"
    /\ result.kind = "None"
    /\ sweep.n = 2 ^ TIME_BITS
    /\ dp.time = 0
    /\ best_score \notin IniScores

(***************************************************************************)
(* The shallow bounds of solver_many.rs, on the positions of SpecPos and   *)
(* in the sweeps of SpecMany.                                              *)
(***************************************************************************)
InPositions == op.kind \in {"new", "do_action"}

BoundsNext ==
    \/ InPositions /\ PosDoAction
    \/ InSolverMany /\ ManyPair
    \/ InSolverMany /\ ManyGenNone
    \/ InSolverMany /\ ManyGenBoard
    \/ InSolverMany /\ ManySolveOnePruned
    \/ InSolverMany /\ ManySolveOneSearch
    \/ InSolverMany /\ ManyDfs
    \/ InSolverMany /\ ManyDfsLoop
    \/ InSolverMany /\ ManyDfsFinish
    \/ InSolverMany /\ ManyDfsReturn
    \/ InSolverMany /\ ManyDfsRoot
    \/ InSolverMany /\ ManyRestore
    \/ InSolverMany /\ ManyFinish

SpecBounds == (PosInit \/ ManyInit) /\ [][BoundsNext]_vars

\* BestScore on the boards reachable from the boards of a sweep, tabulated.
BestScoreOfReachable ==
    [board \in UNION {ReachableBoards(b) : b \in DOMAIN BestScoreOfSweep}
        |-> BestScore(board)]

\* C19: at every depth 0..3 score_upper_bound of a position is at least the
\* greatest score still obtainable from it, captures and perfect bonus: on
\* every position reached by captures from a valid board, and on every
\* position the search of a sweep visits; so whenever solve_one drops a root
\* board by its shallow bounds, the optimum of the board is not greater
\* than best_score.
ShallowBoundsAreUpperBounds ==
    /\ InPositions =>
            \A depth \in 0..3 : score_upper_bound(pos, depth) >= BestScoreOf[pos.board]
    /\ (InSolverMany /\ pc \in {"solve_one", "dfs"}) =>
            \A depth \in 0..3 :
                score_upper_bound(arg, depth) >= BestScoreOfReachable[arg.board]
    /\ (InSolverMany /\ pc = "solve_one" /\ ShallowPrune(arg, best_score)) =>
            BestScoreOfSweep[input] <= best_score

\* solve_one is about to drop a root board that has a capture: its leaf
\* bound is above best_score and a deeper bound is not.
ShallowBoundsWitness ==
    /\ InSolverMany
    /\ pc = "solve_one"
    /\ ShallowPrune(arg, best_score)
    /\ score_upper_bound(arg, 0) > best_score
    /\ BestScoreOfSweep[input] > 0

\* C20: in the pruning solver the value stored for a position is never
\* below the greatest score still obtainable from it (captures and perfect
\* bonus), and within one problem no step raises the value stored in a slot
\* for a position.
GainUbDecreasesAboveOptimum ==
    /\ [](\A idx \in CurrentSlots :
            S2DpEntryGainUb(dp.array[idx]) >= BestScoreOf[BoardOfKey(dp.array[idx].key_hi)])
    /\ [][\A idx \in CurrentSlots :
            (dp'.time = dp.time /\ dp'.array[idx].key_hi = dp.array[idx].key_hi)
                => S2DpEntryGainUb(dp'.array[idx]) <= S2DpEntryGainUb(dp.array[idx])]_vars

\* An entry holds less than the estimate it was created with: set_gain_ub
\* lowered it.
GainUbLoweredWitness ==
    /\ pc \in {"dfs", "loop", "return"}
    /\ \E idx \in CurrentSlots :
            S2DpEntryGainUb(dp.array[idx])
                < PositionScoreUpperBound(PositionNew(BoardOfKey(dp.array[idx].key_hi)))

(***************************************************************************)
(* The three solvers together: solve_problem of solver.rs on any input     *)
(* board, a Solver of solver2.rs given MaxGenerations boards, or a sweep   *)
(* of solver_many.rs.                                                      *)
(***************************************************************************)
InSolver == "kind" \in DOMAIN sweep

SolversNext ==
    \/ InSolver /\ SolveProblem
    \/ InSolver /\ SolveDfs
    \/ InSolver /\ SolveDfsLoop
    \/ InSolver /\ SolveDfsFinish
    \/ InSolver /\ SolveDfsReturn
    \/ InSolver /\ SolveDfsRoot
    \/ InSolver /\ SolveRestore
    \/ InSolver2 /\ S2Solve
    \/ InSolver2 /\ S2Dfs
    \/ InSolver2 /\ S2DfsLoop
    \/ InSolver2 /\ S2DfsFinish
    \/ InSolver2 /\ S2DfsReturn
    \/ InSolver2 /\ S2SolveReturn
    \/ InSolverMany /\ ManyPair
    \/ InSolverMany /\ ManyGenNone
    \/ InSolverMany /\ ManyGenBoard
    \/ InSolverMany /\ ManySolveOnePruned
    \/ InSolverMany /\ ManySolveOneSearch
    \/ InSolverMany /\ ManyDfs
    \/ InSolverMany /\ ManyDfsLoop
    \/ InSolverMany /\ ManyDfsFinish
    \/ InSolverMany /\ ManyDfsReturn
    \/ InSolverMany /\ ManyDfsRoot
    \/ InSolverMany /\ ManyRestore
    \/ InSolverMany /\ ManyFinish

SpecSolvers == (SolveInit \/ GenerationsInit \/ ManyInit) /\ [][SolversNext]_vars

\* The word of an entry is not the zero word (None): some bit field of it
\* is not zero.
NonZeroWord(entry) ==
    entry.key_hi # {} \/ \E f \in DOMAIN entry \ {"key_hi"} : entry[f] # 0

\* The slots of the table that hold Some entry, of any generation.
StoredSlots == {idx \in DOMAIN dp.array : NonZeroWord(dp.array[idx])}

\* C21: in the three solvers no slot of the table ever holds an entry with
\* the key of the empty board, and every call of dfs that went on to its
\* loop (the frames of the recursion, each of which probed the key of its
\* position) is on a non-empty board: the empty board is answered before
\* any probe, in dfs and in the reconstruction.
EmptyBoardNeverProbed ==
    /\ \A idx \in StoredSlots : dp.array[idx].key_hi # calc_key_hi(KeyZero)
    /\ \A i \in 1..Len(stack) : ~BoardIsEmpty(stack[i].pos.board)

\* The reconstruction of solve_problem stands at a position with a capture
\* that empties the board, the table holding entries.
EmptyBoardWitness ==
    /\ InSolver
    /\ pc = "restore"
    /\ StoredSlots # {}
    /\ \E i \in 1..Len(PositionActions(cur)) :
            BoardIsEmpty(DoAction(cur, PositionActions(cur)[i]).board)

\* The probes the reconstruction makes at the position it stands at, in
\* solve of solver.rs or in solve_one of solver_many.rs.
ReconstructionProbes ==
    IF InSolver THEN RestoreProbes(dp, cur, PositionActions(cur), 1)
    ELSE ManyRestoreProbes(dp, cur, PositionActions(cur), 1)

\* C23: wherever the reconstruction of solve_problem or of solve_one
\* stands, the lookup of every child position returns Found (the empty
\* child is answered without a lookup), so the abort of the key closure is
\* not executed, and the lookups leave the table as it was: no entry is
\* created and entry_count stays.
ReconstructionFindsEveryChild ==
    (InSolver \/ InSolverMany) /\ pc = "restore" =>
        \A i \in 1..Len(ReconstructionProbes) :
            /\ ReconstructionProbes[i].kind = "Found"
            /\ ReconstructionProbes[i].table = dp

\* The reconstruction of solve_one has recorded a capture and stands at a
\* position with two captures or more, one of them onto a non-empty board.
ReconstructionWitness ==
    /\ InSolverMany
    /\ pc = "restore"
    /\ Len(solution) >= 1
    /\ Len(PositionActions(cur)) >= 2
    /\ \E i \in 1..Len(PositionActions(cur)) :
            ~BoardIsEmpty(DoAction(cur, PositionActions(cur)[i]).board)

\* The valid boards without a legal capture: the empty board and the stuck
\* ones.
TerminalBoards == {board \in InputBoards : LegalCaptures(board) = {}}

\* What try_improve!(score) leaves in the SubSolver s.
AfterTryImprove(s, score) ==
    [best_score |-> IF score > s.best_score THEN score ELSE s.best_score,
     best_solution |-> IF score > s.best_score
                       THEN [some |-> TRUE, hist |-> s.history]
                       ELSE s.best_solution,
     history |-> s.history]

\* A call of dfs of solver2.rs on a terminal position: the table is left as
\* it is and try_improve gets the score gathered on the way, with the
\* perfect bonus on the empty board.
TerminalCallStep ==
    (pc = "dfs" /\ arg.board \in TerminalBoards) =>
        /\ dp' = dp
        /\ pc' = "return"
        /\ ret' = IF BoardIsEmpty(arg.board) THEN SCORE_PERFECT ELSE 0
        /\ sub' = AfterTryImprove(sub, S2ArgScore + ret')

\* C22: in solver2.rs no slot of the table ever holds an entry of a
\* position without a legal capture, and every call of dfs on such a
\* position calls try_improve with the accumulated score and returns
\* without touching the table.
TerminalPositionsNeverStored ==
    /\ [](\A idx \in StoredSlots :
            BoardOfKey(dp.array[idx].key_hi) \notin TerminalBoards)
    /\ [][TerminalCallStep]_vars

\* A call of dfs on a stuck non-empty position is returning 0 after
\* try_improve took its score as the new best, the table holding entries.
TerminalImprovedWitness ==
    /\ pc = "return"
    /\ ret = 0
    /\ ~BoardIsEmpty(arg.board)
    /\ arg.board \in TerminalBoards
    /\ StoredSlots # {}
    /\ sub.best_score = S2ArgScore
    /\ sub.best_solution = [some |-> TRUE, hist |-> sub.history]
    /\ sub.best_score > best_score

(***************************************************************************)
(* The packed entries bit by bit.  A 64-bit word is the set of its set     *)
(* bits.  The three entry types differ in their fields only:               *)
(*   HashTableEntry (solver.rs)  : 1 + gain_max in bits 0..11;             *)
(*   DpEntry (solver_many.rs)    : time in bits 0..15, 1 + gain_max in     *)
(*                                 bits 16..27;                            *)
(*   DpEntry (solver2.rs)        : time in bits 0..15, gain_ub in bits     *)
(*                                 16..28;                                 *)
(* the high part of the key is in bits 30..63 of all of them.              *)
(***************************************************************************)
WORD_BITS == 64

KEY_HI_SHIFT == 30

ENTRY_TIME_BITS == 16

GAIN_SHIFT == 16

SCORE_MAX == 2409

\* The bits of value, from bit i on.
RECURSIVE U64FromAt(_, _)
U64FromAt(value, i) ==
    IF value = 0 THEN {}
    ELSE (IF value % 2 = 1 THEN {i} ELSE {}) \cup U64FromAt(value \div 2, i + 1)

\* u64::from(value) of a u32 value.
U64From(value) == U64FromAt(value, 0)

RECURSIVE U64Value(_)
U64Value(word) ==
    IF word = {} THEN 0
    ELSE LET i == MaxOf(word) IN 2 ^ i + U64Value(word \ {i})

\* word << n and word >> n on 64 bits.
Shl(word, n) == {i + n : i \in {j \in word : j + n < WORD_BITS}}

Shr(word, n) == {i - n : i \in {j \in word : j >= n}}

\* Mutant of FieldMask: the mask is one bit short.
FieldMaskShort(shift, bits) == shift..(shift + bits - 2)

\* ((1 << bits) - 1) << shift
FieldMask(shift, bits) == shift..(shift + bits - 1)

KEY_HI_MASK == FieldMask(KEY_HI_SHIFT, WORD_BITS - KEY_HI_SHIFT)

EntryLayouts ==
    [solver  |-> [time_bits |-> 0, gain_shift |-> 0,
                  gain_bits |-> GAIN_MAX_BITS, bias |-> 1],
     many    |-> [time_bits |-> ENTRY_TIME_BITS, gain_shift |-> GAIN_SHIFT,
                  gain_bits |-> MANY_GAIN_MAX_BITS, bias |-> 1],
     solver2 |-> [time_bits |-> ENTRY_TIME_BITS, gain_shift |-> GAIN_SHIFT,
                  gain_bits |-> GAIN_UB_BITS, bias |-> 0]]

GainMask(l) == FieldMask(l.gain_shift, l.gain_bits)

\* HashTableEntry::new / DpEntry::new
EntryWordNew(l, time, key, gain) ==
    U64From(time) \cup Shl(U64From(l.bias + gain), l.gain_shift)
                  \cup (key \cap KEY_HI_MASK)

\* time()
EntryWordTime(l, word) == U64Value(word \cap FieldMask(0, l.time_bits))

\* gain_max() / gain_ub()
EntryWordGain(l, word) ==
    U64Value(Shr(word \cap GainMask(l), l.gain_shift)) - l.bias

\* set_gain_max / set_gain_ub
EntryWordSetGain(l, word, gain) ==
    (word \ GainMask(l)) \cup Shl(U64From(l.bias + gain), l.gain_shift)

\* key_hi()
EntryWordKeyHi(word) == Shr(word, KEY_HI_SHIFT)

(***************************************************************************)
(* Specification SpecEntry: an entry is built by new and its score field   *)
(* is overwritten once, for the three entry types.  probe of solver.rs and *)
(* of solver_many.rs builds entries with gain_max 0; make_entry of         *)
(* solver2.rs builds them with a non-zero estimate.                        *)
(***************************************************************************)
TimeSamples == {0, 1, 2 ^ ENTRY_TIME_BITS - 1}

KeySamples == {{}, 0..(WORD_BITS - 1), {0, 5, 29, 33, 63}}

CreatedGains == {1, 5, SCORE_MAX}

EntryInit ==
    /\ pos = PosIdle
    /\ \/ op \in [kind : {"entry"}, variant : {"solver"}, time : {0},
                  key : KeySamples, gain : {0}, gain_new : 0..SCORE_MAX]
       \/ op \in [kind : {"entry"}, variant : {"many"}, time : TimeSamples,
                  key : KeySamples, gain : {0}, gain_new : 0..SCORE_MAX]
       \/ op \in [kind : {"entry"}, variant : {"solver2"}, time : TimeSamples,
                  key : KeySamples, gain : CreatedGains, gain_new : 1..SCORE_MAX]
    /\ DfsIdle
    /\ SweepIdle

\* HashTableEntry::new / DpEntry::new on the inputs.
EntryNew ==
    /\ op.kind = "entry"
    /\ op' = [kind |-> "new_done", inputs |-> op,
              word |-> EntryWordNew(EntryLayouts[op.variant], op.time, op.key, op.gain)]
    /\ UNCHANGED <<pos, dfsVars, sweepVars>>

\* set_gain_max / set_gain_ub on the entry.
EntrySetGain ==
    /\ op.kind = "new_done"
    /\ op' = [kind |-> "set_done", inputs |-> op.inputs, before |-> op.word,
              word |-> EntryWordSetGain(EntryLayouts[op.inputs.variant], op.word,
                                        op.inputs.gain_new)]
    /\ UNCHANGED <<pos, dfsVars, sweepVars>>

EntryNext ==
    \/ EntryNew
    \/ EntrySetGain

SpecEntry == EntryInit /\ [][EntryNext]_vars

\* The bits of the score field of each entry type, as the doc comments of
\* the types give them.
ScoreFieldBits(variant) ==
    CASE variant = "solver" -> 0..11
      [] variant = "many" -> 16..27
      [] variant = "solver2" -> 16..28

\* C24: set_gain_max / set_gain_ub with any score of 0..2409 changes no bit
\* outside the score field, so the generation and the high 34 bits of the
\* key stay; the score read back is the score written; and the encoded
\* score (1 + gain_max, or gain_ub) fits the width of the field.
SetGainChangesScoreOnly ==
    op.kind = "set_done" =>
        LET l == EntryLayouts[op.inputs.variant]
            field == ScoreFieldBits(op.inputs.variant)
        IN  /\ op.word \ field = op.before \ field
            /\ EntryWordTime(l, op.word) = op.inputs.time
            /\ EntryWordKeyHi(op.word) = {i - 30 : i \in op.inputs.key \cap 30..63}
            /\ EntryWordGain(l, op.word) = op.inputs.gain_new
            /\ EntryWordGain(l, op.before) = op.inputs.gain
            /\ l.bias + op.inputs.gain_new < 2 ^ Cardinality(field)

\* The largest score was written over a smaller one in an entry of
\* solver2.rs whose generation and key have all their bits set.
SetGainWitness ==
    /\ op.kind = "set_done"
    /\ op.inputs.variant = "solver2"
    /\ op.inputs.time = 2 ^ ENTRY_TIME_BITS - 1
    /\ op.inputs.key = 0..(WORD_BITS - 1)
    /\ op.inputs.gain = 5
    /\ op.inputs.gain_new = SCORE_MAX
    /\ op.word # op.before

\* The score field of an entry: 1 + gain_max in solver.rs and
\* solver_many.rs, gain_ub in solver2.rs.
ScoreField(entry) ==
    IF "gain_ub" \in DOMAIN entry THEN entry.gain_ub ELSE entry.value_gain_max

\* The slots whose score field is not zero and whose generation, where the
\* entry has one, is the table's.
CurrentScoredSlots ==
    {idx \in DOMAIN dp.array :
        /\ ScoreField(dp.array[idx]) # 0
        /\ "time" \in DOMAIN dp.array[idx] => dp.array[idx].time = dp.time}

\* C25: every word stored in a table has a non-zero score field, whatever
\* its key and generation, so it is never the zero word of an unused slot:
\* the slots of the current generation with a non-zero score field are as
\* many as the entries created (entry_count), every stored entry of an
\* earlier generation has a non-zero score field too, and in solver2.rs
\* the value handed to set_gain_ub after the loop of dfs is not 0.
StoredWordsNonZero ==
    /\ Cardinality(CurrentScoredSlots) = dp.entry_count
    /\ \A idx \in StoredSlots : ScoreField(dp.array[idx]) # 0
    /\ \A k \in 1..Len(stack) : ScoreField(dp.array[stack[k].dp_idx]) # 0
    /\ (InSolver2 /\ pc = "loop"
            /\ stack[Len(stack)].i > Len(stack[Len(stack)].acts))
        => stack[Len(stack)].gain_ub_new # 0

\* In the first generation (time 0) of a Solver of solver2.rs, dfs is about
\* to lower the score field of an entry by set_gain_ub, two entries or more
\* having been created.
StoredWordsWitness ==
    /\ InSolver2
    /\ dp.time = 0
    /\ dp.entry_count >= 2
    /\ pc = "loop"
    /\ stack[Len(stack)].i > Len(stack[Len(stack)].acts)
    /\ stack[Len(stack)].gain_ub_new # 0
    /\ stack[Len(stack)].gain_ub_new < dp.array[stack[Len(stack)].dp_idx].gain_ub

\* The place of a triple in the order of the sweep: (counter, inc_timing)
\* outer, state inner, each ascending within the ranges of sw.
TripleRank(sw, state, counter, inc_timing) ==
    ((counter - sw.counters[1]) * (sw.inc_timings[2] - sw.inc_timings[1] + 1)
        + (inc_timing - sw.inc_timings[1])) * (sw.states[2] - sw.states[1] + 1)
      + (state - sw.states[1])

SweepRank(sw) == TripleRank(sw, sw.state, sw.counter, sw.inc_timing)

\* One step of the sweep: the loop variables only move to the next triple
\* of the order, the board handed to solve_one is the board of the current
\* triple, best_score never decreases, and the answer is replaced only by
\* the current triple with a strictly greater score, which is the optimum
\* of its board and is above the optimum of every other board searched so
\* far.
SweepOrderStep ==
    /\ sweep' # sweep =>
            /\ SweepRank(sweep') = SweepRank(sweep) + 1
            /\ sweep'.state \in sweep.states[1]..sweep.states[2]
            /\ sweep'.counter \in sweep.counters[1]..sweep.counters[2]
            /\ sweep'.inc_timing \in sweep.inc_timings[1]..sweep.inc_timings[2]
    /\ pc' = "solve_one" =>
            input' = GenBoardArrays(sweep.state, sweep.counter, sweep.inc_timing)
    /\ best_score' >= best_score
    /\ best_ans' # best_ans =>
            /\ best_score' > best_score
            /\ best_ans'.score = best_score'
            /\ best_ans'.rng_state = sweep.state
            /\ best_ans'.rng_counter = sweep.counter
            /\ best_ans'.rng_inc_timing = sweep.inc_timing
            /\ BestScoreOfSweep[input] = best_score'
            /\ \A board \in seen \ {input} : BestScoreOfSweep[board] < best_score'

\* C26: solve_problems_many goes through the triples with (counter,
\* inc_timing) outer and state inner, each ascending, and ends after the
\* last one; best_score never decreases and the answer is replaced only by
\* a strictly greater score, so the triple of the answer is the first one
\* searched whose board attains the score of the answer, which is the
\* final best_score when the sweep returns.
SweepOrderFirstBest ==
    /\ [][SweepOrderStep]_vars
    /\ [](pc = "finish" =>
            /\ sweep.state = sweep.states[2]
            /\ sweep.counter = sweep.counters[2]
            /\ sweep.inc_timing = sweep.inc_timings[2])
    /\ [](best_ans.kind = "Some" =>
            /\ best_ans.score = best_score
            /\ BestScoreOfSweep[GenBoardArrays(best_ans.rng_state, best_ans.rng_counter,
                                               best_ans.rng_inc_timing)] = best_score
            /\ SweepRank(sweep) >= TripleRank(sweep, best_ans.rng_state,
                                              best_ans.rng_counter,
                                              best_ans.rng_inc_timing))
    /\ [](pc = "done" => result = best_ans)

\* In a sweep over more than one counter and more than one state, a board
\* is handed to solve_one whose optimum equals the score of the answer
\* recorded for an earlier triple.
SweepOrderWitness ==
    /\ pc = "solve_one"
    /\ sweep.states[1] < sweep.states[2]
    /\ sweep.counters[1] < sweep.counters[2]
    /\ best_ans.kind = "Some"
    /\ BestScoreOfSweep[input] = best_ans.score
    /\ SweepRank(sweep) > TripleRank(sweep, best_ans.rng_state, best_ans.rng_counter,
                                     best_ans.rng_inc_timing)

\* The (piece, square) constants of the occupied squares of board among sqs.
ConstantsOn(board, sqs) == {<<board[sq], sq>> : sq \in sqs \cap Occupancy(board)}

SlotKey(idx) == PositionNew(BoardOfKey(dp.array[idx].key_hi)).key

\* A probe of the key in slot idx finds that slot and leaves the table.
ProbeFindsSlot(idx) ==
    IF InSolver
    THEN LET p == HashTableProbe(dp, SlotKey(idx))
         IN  /\ p.kind = "Found"
             /\ p.table = dp
             /\ p.gain_max = HashTableEntryGainMax(dp.array[idx])
    ELSE IF InSolver2
    THEN LET p == S2DpTableProbe(dp, SlotKey(idx))
         IN  /\ p.kind = "Occupied"
             /\ p.idx = idx
             /\ p.gain_ub = S2DpEntryGainUb(dp.array[idx])
    ELSE LET p == ManyDpTableProbe(dp, SlotKey(idx))
         IN  /\ p.kind = "Found"
             /\ p.table = dp
             /\ p.gain_max = ManyDpEntryGainMax(dp.array[idx])

\* A step within one generation: a search or a reconstruction is running.
\* The entries of the generation stay in their slots with their keys.
SlotsStayStep ==
    (pc \in {"dfs", "loop", "restore"} \/ (pc = "return" /\ stack # << >>)) =>
        \A idx \in CurrentScoredSlots :
            /\ idx \in CurrentScoredSlots'
            /\ dp'.array[idx].key_hi = dp.array[idx].key_hi

\* C28: in the three tables an entry created for a key stays in its slot
\* for the rest of its generation, whatever is inserted afterwards: every
\* entry of the current generation is found again by a probe of its key,
\* at its slot and with its value, no key has two slots, and the slot a
\* call of dfs in progress will write its result to still holds the key of
\* the position of that call.
ProbeFindsCreatedSlot ==
    /\ [][SlotsStayStep]_vars
    /\ [](\A idx \in CurrentScoredSlots : ProbeFindsSlot(idx))
    /\ [](\A i, j \in CurrentScoredSlots :
            dp.array[i].key_hi = dp.array[j].key_hi => i = j)
    /\ [](\A k \in 1..Len(stack) :
            /\ stack[k].dp_idx \in CurrentScoredSlots
            /\ dp.array[stack[k].dp_idx].key_hi = calc_key_hi(stack[k].pos.key))

\* A call of dfs got Found for a position whose entry had been pushed off
\* its home slot by the linear probe, while the calls in progress wait to
\* write to slots of their own.
ProbeDisplacedWitness ==
    /\ pc = "return"
    /\ Len(stack) >= 2
    /\ ~BoardIsEmpty(arg.board)
    /\ \E idx \in CurrentScoredSlots :
            /\ dp.array[idx].key_hi = calc_key_hi(arg.key)
            /\ idx # arg.key.lo % DP_TABLE_CAP
            /\ \A k \in 1..Len(stack) : stack[k].dp_idx # idx

\* The progress of a search as a sequence of digits, one per call in
\* progress (three times the number of the capture it is at) and one for
\* the call below them: 1 when it is entered, DigitDone when it returns, 0
\* when the innermost call in progress is at its loop.
DigitDone == 3 * (SquareNum \div 2 + 1) + 1

Odometer ==
    [k \in 1..(Len(stack) + 1) |->
        IF k <= Len(stack) THEN 3 * stack[k].i
        ELSE IF pc = "dfs" THEN 1
        ELSE IF pc = "return" THEN DigitDone
        ELSE 0]

LexLess(a, b) ==
    \E k \in 1..Len(a) :
        /\ k <= Len(b)
        /\ a[k] < b[k]
        /\ \A j \in 1..(k - 1) : a[j] = b[j]

\* A step of a search moves the odometer up, and the search is not caught
\* in the loop of a probe.
SearchProgressStep ==
    (pc \in {"dfs", "loop"} \/ (pc = "return" /\ stack # << >>)) =>
        /\ LexLess(Odometer, Odometer')
        /\ pc' # "spin"

\* The least squares of the captures the first n calls in progress are at.
CapturePath(n) == [k \in 1..n |-> ActionLeastSquare(stack[k].acts[stack[k].i])]

\* The shared history of solver2.rs is the capture path of the calls in
\* progress: with the capture of the innermost one while its child is
\* called or returns, without it while the innermost one is at its loop.
HistoryIsCapturePath ==
    InSolver2 =>
        /\ pc \in {"dfs", "return"} => sub.history = CapturePath(Len(stack))
        /\ pc = "loop" => sub.history = CapturePath(Len(stack) - 1)
        /\ pc = "done" => sub.history = << >>

\* try_improve replaced best_solution: the clone is the history, which
\* replays from the board of the problem to the terminal position of the
\* call and scores the new best_score.
HistoryCloneStep ==
    (pc = "dfs" /\ InSolver2 /\ sub'.best_solution # sub.best_solution) =>
        /\ sub'.best_solution = [some |-> TRUE, hist |-> sub.history]
        /\ LegalCaptures(arg.board) = {}
        /\ Replay(input, sub.history).legal
        /\ Replay(input, sub.history).board = arg.board
        /\ ReplayScore(input, sub.history) = sub'.best_score

\* C29: every dfs terminates: each step of a search moves a bounded
\* odometer of bounded length up; the calls in progress are never more
\* than HISTORY_CAP (24 on the real board), each capture having taken two
\* pieces or more off the board; in solver2.rs the history is the capture
\* path of the calls in progress, so it has room at push_unchecked, is not
\* empty at remove_last_unchecked and is on return what it was on entry,
\* and the history cloned into best_solution is the capture path from the
\* root to the terminal position being scored.
DfsDepthBounded ==
    /\ [][SearchProgressStep]_vars
    /\ [](\A k \in 1..Len(Odometer) : Odometer[k] <= DigitDone)
    /\ [](Len(stack) <= HISTORY_CAP)
    /\ [](pc = "dfs" =>
            2 * Len(stack) + Cardinality(Occupancy(arg.board)) <= SquareNum)
    /\ [](pc # "ub")
    /\ []HistoryIsCapturePath
    /\ [][HistoryCloneStep]_vars

\* A call of dfs of solver2.rs at the greatest depth, on the empty board,
\* is returning after try_improve cloned a full history.
DfsDeepestWitness ==
    /\ InSolver2
    /\ pc = "return"
    /\ Len(stack) = HISTORY_CAP
    /\ Len(sub.history) = HISTORY_CAP
    /\ BoardIsEmpty(arg.board)
    /\ sub.best_solution = [some |-> TRUE, hist |-> sub.history]

\* ---------------------------------------------------------------------------
\* Command-line front ends: examples/gen_board.rs, solve_many.rs,
\* solve_many2.rs.  Only the inc_timing arguments are drawn as text; the board
\* geometry is scaled, so Square::NUM is SquareNum.
\* ---------------------------------------------------------------------------

CliCommands == {"gen_board", "solve_many", "solve_many2"}

CliArgChars == {"0", "6", "7", "9", "-", "x"}

CliArgTexts == SeqsUpTo(CliArgChars, 2) \ {<<>>}

RECURSIVE UsizeParseDigits(_, _)
UsizeParseDigits(s, acc) ==
    IF s = <<>> THEN ParseOk(acc)
    ELSE IF ~IsDigit(Head(s)) THEN ParseErr
    ELSE UsizeParseDigits(Tail(s), acc * 10 + DigitValue(Head(s)))

\* value_parser for a usize argument: decimal digits, at least one; a sign or
\* a letter is a parse error.
UsizeParse(s) ==
    IF s = <<>> THEN ParseErr ELSE UsizeParseDigits(s, 0)

\* How a process ends: "ok" (exit 0), "panic" (non-zero, a failed assert or
\* expect) or "usage" (non-zero, the argument parser's invalid-input report).
CliExit(o, code) ==
    [kind |-> "cli_exit", command |-> o.command, args |-> o.args,
     calls |-> o.calls, code |-> code]

CliInit ==
    /\ pos = PosIdle
    /\ DfsIdle
    /\ SweepIdle
    /\ \E command \in CliCommands :
         \E args \in (IF command = "gen_board"
                        THEN [1..1 -> CliArgTexts]
                        ELSE [1..2 -> CliArgTexts]) :
           op = [kind |-> "cli_args", command |-> command, args |-> args,
                 calls |-> {}]

\* Cli::parse(): every inc_timing argument goes through the value parser; a
\* text that does not parse ends the process with the usage error.
CliParse ==
    /\ "kind" \in DOMAIN op
    /\ op.kind = "cli_args"
    /\ op' = IF \A i \in DOMAIN op.args : UsizeParse(op.args[i]).ok
               THEN [kind |-> "cli_parsed", command |-> op.command,
                     args |-> op.args, calls |-> op.calls,
                     lo |-> UsizeParse(op.args[1]).value,
                     hi |-> UsizeParse(op.args[Len(op.args)]).value]
               ELSE CliExit(op, "usage")
    /\ UNCHANGED <<pos, dfsVars, sweepVars>>

\* main() of the sweeping front ends: the range min..=max is built from the
\* parsed values; an empty range fails an assert!.
CliRange ==
    /\ "kind" \in DOMAIN op
    /\ op.kind = "cli_parsed"
    /\ op.command # "gen_board"
    /\ op' = IF op.lo <= op.hi
               THEN [kind |-> "cli_sweep", command |-> op.command,
                     args |-> op.args, calls |-> op.calls,
                     lo |-> op.lo, hi |-> op.hi]
               ELSE CliExit(op, "panic")
    /\ UNCHANGED <<pos, dfsVars, sweepVars>>

\* main() of gen_board: the parsed value is passed to GameRng::gen_board.
\* Within the precondition the board is printed or the expect() panics;
\* outside it the behaviour is undefined, and either exit can be observed.
CliGenBoard ==
    /\ "kind" \in DOMAIN op
    /\ op.kind = "cli_parsed"
    /\ op.command = "gen_board"
    /\ \E code \in {"ok", "panic"} :
         op' = CliExit([op EXCEPT !.calls = @ \cup {op.lo}], code)
    /\ UNCHANGED <<pos, dfsVars, sweepVars>>

\* One iteration of the sweep over inc_timings: GameRng::gen_board is called
\* with the next value of the range.  Outside the precondition the behaviour
\* is undefined: the loop goes on or the process dies.
CliSweepCall ==
    /\ "kind" \in DOMAIN op
    /\ op.kind = "cli_sweep"
    /\ op.lo <= op.hi
    /\ \/ op' = [op EXCEPT !.calls = @ \cup {op.lo}, !.lo = @ + 1]
       \/ /\ op.lo > SquareNum
          /\ op' = CliExit([op EXCEPT !.calls = @ \cup {op.lo}], "panic")
    /\ UNCHANGED <<pos, dfsVars, sweepVars>>

\* The sweep is exhausted: the result (or its absence) is printed.
CliSweepDone ==
    /\ "kind" \in DOMAIN op
    /\ op.kind = "cli_sweep"
    /\ op.lo > op.hi
    /\ \E code \in {"ok", "panic"} : op' = CliExit(op, code)
    /\ UNCHANGED <<pos, dfsVars, sweepVars>>

CliNext ==
    \/ CliParse
    \/ CliRange
    \/ CliGenBoard
    \/ CliSweepCall
    \/ CliSweepDone

SpecCli == CliInit /\ [][CliNext]_vars

InCli == "kind" \in DOMAIN op /\ op.kind \in {"cli_args", "cli_parsed", "cli_sweep", "cli_exit"}

\* The inc_timing values the command line asks for: the parsed argument, or
\* every value of the parsed range.
CliRequested(o) ==
    IF \E i \in DOMAIN o.args : ~UsizeParse(o.args[i]).ok THEN {}
    ELSE UsizeParse(o.args[1]).value .. UsizeParse(o.args[Len(o.args)]).value

\* C30: in every command-line front end an inc_timing argument outside
\* 0..Square::NUM is reported as invalid input with a non-zero exit and never
\* reaches GameRng::gen_board: no call is made with inc_counter_after above
\* Square::NUM, and a process that was asked for such a value ends with the
\* usage error.
CliRejectsIncTimingOutOfRange ==
    InCli =>
        /\ \A inc \in op.calls : inc <= SquareNum
        /\ (op.kind = "cli_exit" /\ \E inc \in CliRequested(op) : inc > SquareNum)
               => op.code = "usage"

\* The gen_board front end, given the text of Square::NUM + 1, has called
\* GameRng::gen_board with it and has exited.
CliOutOfRangeReachesGenBoard ==
    /\ InCli
    /\ op.kind = "cli_exit"
    /\ op.command = "gen_board"
    /\ op.args = <<<<"7">>>>
    /\ (SquareNum + 1) \in op.calls

====
